---- MODULE Spec2Model ----
(***************************************************************************)
(* Verification model of the datagrid repository.                          *)
(*                                                                         *)
(* Part I models VirtualDataManager (data/VirtualDataManager.ts): the page *)
(* cache (a Map kept in insertion order), the loadingPages set, the        *)
(* fetchRows calls in flight and the suspended ensureDataLoaded calls.     *)
(* Each await of the source is a point where the model may interleave      *)
(* other operations; everything between two awaits is one atomic step.     *)
(*                                                                         *)
(* Part II models the pointer handling of the grid controller              *)
(* (hooks/useGridController.ts, dispatchEvent) with the state it drives:   *)
(* scroll position, selection, hover highlight, column widths, column      *)
(* order and the scrollbar, resize and reorder drag sessions. One          *)
(* dispatchEvent call is one atomic step.                                  *)
(***************************************************************************)
EXTENDS Integers, Sequences, FiniteSets, TLC

(***************************************************************************)
(* Configuration of the modelled instance (options of the constructor and  *)
(* of the data source) and bounds of the exploration.                      *)
(***************************************************************************)
PageSize == 1
RowCount == 4
CacheSize == 1
MaxCacheAge == 1
MaxTime == 2
MaxFetches == 2

VARIABLES
    cacheSize,        \* this.cacheSize
    lastRange,        \* history: the pages [startPage, endPage] of the last
                      \*          ensureDataLoaded call made for the grid's visibleRange
                      \*          (EnsureVisibleRange), NoRange before any
    pages,            \* this.pages: sequence of DataPage records, in Map insertion order
    loadingPages,     \* this.loadingPages: set of page indices
    prefetchEnabled,  \* this.prefetchEnabled
    fetches,          \* fetchRows calls in flight (suspended loadPage invocations);
                      \* history in each: stale, started before the last clearCache
    calls,            \* ensureDataLoaded invocations suspended at Promise.allSettled
    now,              \* Date.now()
    nextFid,          \* identity of the next DataPage object / loadPage invocation
    unnotified,       \* history: a fetch has succeeded since the last notifyListeners()
    earlyResolved,    \* history: fetches in flight whose page was in the required range
                      \*          of an ensureDataLoaded call that returned without awaiting
    tainted,          \* history: pages with a fetch in flight that predates a clearCache()
    discarded         \* history: "evicted" or "cleared" when the last step completed a
                      \*          fetch whose page object was no longer in the Map, by
                      \*          cleanupCache or by clearCache; "none" otherwise

dataVars == <<cacheSize, lastRange, pages, loadingPages, prefetchEnabled, fetches, calls, now, nextFid,
              unnotified, earlyResolved, tainted, discarded>>

VARIABLES
    selection,        \* selectionRef.current: the committed SelectionRange, or Null;
                      \* handle.setSelection hands the same value to the state setter
                      \* of useGridSelection, so it is also the state of the next render
    hoverHighlight,   \* hoverHighlightRef.current
    columns,          \* columnWidths.columns (widths by visible index)
    scrollTop,        \* scrolling.scrollTop
    scrollLeft,       \* scrolling.scrollLeft
    scrollbarDrag,    \* scrollbarDragRef.current
    resizeActive,     \* resizeActiveRef.current.active
    activeResize,     \* ColumnResizeManager.activeResize, or NoResize
    columnDrag,       \* columnDragRef.current, or NoDrag
    currentOrder,     \* currentOrderRef.current (data index by visible index)
    committedOrder,   \* committedOrderRef.current, <<>> for null
    globalPointerUp,  \* windowPointerUpHandlerRef.current is set
    lastEvent,        \* history: type of the last dispatched event, its result, and
                      \*          whether it released an active reorder drag with the
                      \*          pointer over the dragged column's original span
    dragOrigin,       \* history: on-screen span [lo, hi) that the column of the reorder
                      \*          session had at the pointer-down that armed the session
    emitted,          \* history: the orders passed to onColumnOrderChange by the last event
    eventCount        \* history: number of events dispatched so far

ptrVars == <<selection, hoverHighlight, columns, scrollTop, scrollLeft, scrollbarDrag,
             resizeActive, activeResize, columnDrag, currentOrder, committedOrder,
             globalPointerUp, lastEvent, dragOrigin, emitted, eventCount>>

VARIABLES
    fnInput,          \* the options of a call of a layout function, NoCall when none
    fnOutput,         \* what that call returned, NoCall before it has run
    composed          \* the state held by useComposedGridState for a grid of its own:
                      \* options, columnWidths, canvasRect, scrollTop, scrollLeft,
                      \* visibleRange

layoutVars == <<fnInput, fnOutput, composed>>

VARIABLES
    widthTimers,      \* the setTimeout callbacks scheduled by resizeColumn and not yet
                      \* run: the (index, width) each will hand to onColumnWidthChange
    widthNotified     \* history: the (index, width) of the last onColumnWidthChange call

uiVars == <<widthTimers, widthNotified>>

VARIABLES
    selState,         \* composed.selection: the selection state of the last render
    lastSelection,    \* lastSelectionRef.current
    transition,       \* selectionTransitionRef.current, NoTransition for null
    frame,            \* the tick handed to requestAnimationFrame is still to run
    duration,         \* the selectionTransitionDuration prop
    lastCall,         \* history: the last step taken and its argument
    selCalls          \* history: number of calls and prop changes made by the host

selVars == <<selState, lastSelection, transition, frame, duration, lastCall, selCalls>>

vars == <<dataVars, ptrVars, layoutVars, uiVars, selVars>>

\* ---------------------------------------------------------------- helpers

Max(a, b) == IF a >= b THEN a ELSE b

Min(a, b) == IF a <= b THEN a ELSE b

\* Math.ceil(rowCount / pageSize)
TotalPages == (RowCount + PageSize - 1) \div PageSize

\* Math.floor(visibleRange.startRow / pageSize)
StartPage(startRow) == startRow \div PageSize

\* Math.floor((visibleRange.endRow - 1) / pageSize)
EndPage(endRow) == (endRow - 1) \div PageSize

\* Position of page index p in the Map, 0 when absent (this.pages.get(p))
PagePos(pgs, p) ==
    IF \E i \in 1..Len(pgs) : pgs[i].pageIndex = p
    THEN CHOOSE i \in 1..Len(pgs) : pgs[i].pageIndex = p
    ELSE 0

\* The page indices held in the Map
CachedIndices(pgs) == { pgs[i].pageIndex : i \in 1..Len(pgs) }

\* hasPage(pageIndex): page !== undefined && !page.isLoading && !page.error
hasPage(p) ==
    LET i == PagePos(pages, p)
    IN  i # 0 /\ ~pages[i].isLoading /\ ~pages[i].error

\* The test of ensureDataLoaded before each loadPage:
\* !this.hasPage(pageIndex) && !this.loadingPages.has(pageIndex)
NeedsLoadNoMark(p) == ~hasPage(p)

NeedsLoad(p) == ~hasPage(p) /\ p \notin loadingPages

\* A limit that ignores the rows left after the offset
PageLimitUncapped(p) == PageSize

\* loadPage: limit = Math.min(pageSize, rowCount - offset)
PageLimit(p) == Min(PageSize, RowCount - p * PageSize)

\* this.pages.set(pageIndex, page): an existing key keeps its place in the
\* Map's order, a new key goes last.
SetPage(pgs, rec) ==
    LET i == PagePos(pgs, rec.pageIndex)
    IN  IF i = 0 THEN Append(pgs, rec) ELSE [pgs EXCEPT ![i] = rec]

\* The DataPage object built by loadPage. fid is the identity of the object
\* while its loadPage invocation is suspended (0 once nothing refers to it but
\* the Map); kind is history: which loop of ensureDataLoaded started it.
NewPage(p, fid, kind) ==
    [pageIndex |-> p, fid |-> fid, dataLen |-> 0, timestamp |-> now,
     isLoading |-> TRUE, error |-> FALSE, kind |-> kind]

\* The synchronous part of a run of loadPage calls, in call order: each adds
\* the loading mark and puts a fresh page object into the Map.
RECURSIVE StartLoads(_, _, _, _)
StartLoads(order, kinds, pgs, fid) ==
    IF order = <<>> THEN pgs
    ELSE StartLoads(Tail(order), Tail(kinds),
                    SetPage(pgs, NewPage(Head(order), fid, Head(kinds))), fid + 1)

\* Ascending sequence of the members of a set of integers
RECURSIVE SortedSeq(_)
SortedSeq(S) ==
    IF S = {} THEN <<>>
    ELSE LET m == CHOOSE x \in S : \A y \in S : x <= y
         IN  <<m>> \o SortedSeq(S \ {m})

\* Subsequence of the entries satisfying keep[i]
RECURSIVE Filter(_, _)
Filter(pgs, keep) ==
    IF pgs = <<>> THEN <<>>
    ELSE (IF keep[1] THEN <<Head(pgs)>> ELSE <<>>)
         \o Filter(Tail(pgs), [i \in 1..(Len(pgs) - 1) |-> keep[i + 1]])

\* cleanupCache, first loop: entries sorted by timestamp (a stable sort of the
\* insertion order), the oldest removed while more than cacheSize remain.
EvictBySize(pgs) ==
    LET n == Len(pgs)
        before(j, i) == \/ pgs[j].timestamp < pgs[i].timestamp
                        \/ pgs[j].timestamp = pgs[i].timestamp /\ j < i
        rank(i) == Cardinality({ j \in 1..n : before(j, i) })
        k == Max(0, n - cacheSize)
    IN  Filter(pgs, [i \in 1..n |-> rank(i) >= k])

\* cleanupCache, second loop: now - page.timestamp > maxCacheAge
EvictByAge(pgs) ==
    Filter(pgs, [i \in 1..Len(pgs) |-> ~(now - pgs[i].timestamp > MaxCacheAge)])

cleanupCache(pgs) == EvictByAge(EvictBySize(pgs))

\* The continuation of loadPage after a resolved fetchRows: writes to its own
\* page object, which changes the Map only if that object is still in it.
PageLoadedReinsert(pgs, f) ==
    LET rec == [pageIndex |-> f.pageIndex, fid |-> 0, dataLen |-> f.limit,
                timestamp |-> now, isLoading |-> FALSE, error |-> FALSE,
                kind |-> f.kind]
    IN  SetPage(pgs, rec)

PageLoaded(pgs, f) ==
    [i \in 1..Len(pgs) |->
        IF pgs[i].fid = f.fid
        THEN [pgs[i] EXCEPT !.dataLen = f.limit, !.isLoading = FALSE,
                            !.timestamp = now, !.fid = 0]
        ELSE pgs[i]]

\* The catch branch of loadPage
PageFailed(pgs, f) ==
    [i \in 1..Len(pgs) |->
        IF pgs[i].fid = f.fid
        THEN [pgs[i] EXCEPT !.error = TRUE, !.isLoading = FALSE, !.fid = 0]
        ELSE pgs[i]]

\* hasError(visibleRange): the first page of the range that holds an error,
\* as its position in the Map; 0 stands for null.
hasError(startRow, endRow) ==
    LET bad == { p \in StartPage(startRow)..EndPage(endRow) :
                    PagePos(pages, p) # 0 /\ pages[PagePos(pages, p)].error }
    IN  IF bad = {} THEN 0
        ELSE PagePos(pages, CHOOSE p \in bad : \A q \in bad : p <= q)

\* isLoading(visibleRange)
isLoading(startRow, endRow) ==
    \E p \in StartPage(startRow)..EndPage(endRow) :
        \/ p \in loadingPages
        \/ PagePos(pages, p) = 0
        \/ pages[PagePos(pages, p)].isLoading

FetchIds == { f.fid : f \in fetches }

FetchesOf(p) == { f \in fetches : f.pageIndex = p }

\* The loadPage invocations in flight once clearCache has run (stale is
\* history: the invocation was started before the last clearCache)
Outdated(fs) == { [f EXCEPT !.stale = TRUE] : f \in fs }

\* The page object of the loadPage invocation f is still the one in the Map
Attached(f) == \E i \in 1..Len(pages) : pages[i].fid = f.fid

\* Ranges handed to ensureDataLoaded
RangeStarts == 0..(RowCount - 1)

RangeEnds(startRow) == (startRow + 1)..(RowCount + 1)

\* ---------------------------------------------------------------- actions

\* No ensureDataLoaded call yet
NoRange == [startPage |-> 0, endPage |-> 0 - 1]

\* The state of a new VirtualDataManager, but for this.cacheSize
Constructed ==
    /\ pages = <<>>
    /\ loadingPages = {}
    /\ prefetchEnabled = TRUE
    /\ fetches = {}
    /\ calls = {}
    /\ now = 0
    /\ nextFid = 1
    /\ unnotified = FALSE
    /\ earlyResolved = {}
    /\ tainted = {}
    /\ discarded = "none"
    /\ lastRange = NoRange

\* new VirtualDataManager(dataSource, { cacheSize: CacheSize, ... })
DataInit == Constructed /\ cacheSize = CacheSize

\* ensureDataLoaded(visibleRange), up to its await (or to its return when no
\* required page had to be loaded); budget caps the loadPage invocations of
\* a run.
EnsureDataLoadedWithin(startRow, endRow, budget) ==
    LET startPage == StartPage(startRow)
        endPage == EndPage(endRow)
        required == { p \in startPage..endPage : NeedsLoad(p) }
        \* loadPage returns at once, with nothing done, when limit <= 0
        reqLoads == SortedSeq({ p \in required : PageLimit(p) > 0 })
        preLoads == IF prefetchEnabled
                    THEN SelectSeq(<<startPage - 1, endPage + 1>>,
                                   LAMBDA p : /\ p >= 0
                                              /\ p < TotalPages
                                              /\ NeedsLoad(p)
                                              /\ PageLimit(p) > 0)
                    ELSE <<>>
        order == reqLoads \o preLoads
        kinds == [i \in 1..Len(order) |->
                    IF i <= Len(reqLoads) THEN "required" ELSE "prefetch"]
        fidOf(i) == nextFid + i - 1
        started == { [fid |-> fidOf(i), pageIndex |-> order[i], kind |-> kinds[i],
                      offset |-> order[i] * PageSize, limit |-> PageLimit(order[i]),
                      stale |-> FALSE] :
                     i \in 1..Len(order) }
        awaiting == { fidOf(i) : i \in 1..Len(reqLoads) }
        covered == { f.fid : f \in { g \in fetches :
                                       /\ g.pageIndex \in startPage..endPage
                                       /\ g.pageIndex \in loadingPages } }
    IN  /\ nextFid + Len(order) - 1 <= budget
        /\ pages' = StartLoads(order, kinds, pages, nextFid)
        /\ loadingPages' = loadingPages \cup { order[i] : i \in 1..Len(order) }
        /\ fetches' = fetches \cup started
        /\ nextFid' = nextFid + Len(order)
        /\ IF required = {}
           THEN \* loadPromises.length = 0: the call returns, its promise resolved
                /\ calls' = calls
                /\ earlyResolved' = earlyResolved \cup covered
           ELSE /\ calls' = calls \cup {[awaiting |-> awaiting]}
                /\ earlyResolved' = earlyResolved
        /\ discarded' = "none"
        /\ UNCHANGED <<cacheSize, prefetchEnabled, now, unnotified, tainted>>
        /\ UNCHANGED <<ptrVars, layoutVars, uiVars, selVars>>

EnsureDataLoaded(startRow, endRow) ==
    /\ EnsureDataLoadedWithin(startRow, endRow, MaxFetches)
    /\ UNCHANGED lastRange

\* The ensureDataLoaded call made for the grid's visible range, which is
\* noted; with room for one more loadPage invocation than above
EnsureVisibleRange(startRow, endRow) ==
    /\ EnsureDataLoadedWithin(startRow, endRow, MaxFetches + 1)
    /\ lastRange' = [startPage |-> StartPage(startRow), endPage |-> EndPage(endRow)]

\* The end of a loadPage invocation: its promise settles, which the
\* Promise.allSettled of the calls awaiting it observe.
FetchDone(f) ==
    /\ fetches' = fetches \ {f}
    /\ calls' = { [awaiting |-> c.awaiting \ {f.fid}] : c \in calls }
    /\ discarded' = IF Attached(f) THEN "none"
                    ELSE IF f.pageIndex \in tainted THEN "cleared" ELSE "evicted"
    /\ earlyResolved' = earlyResolved \ {f.fid}
    /\ tainted' = IF FetchesOf(f.pageIndex) = {f} THEN tainted \ {f.pageIndex}
                  ELSE tainted

\* fetchRows resolves: the try branch of loadPage after its await
FetchSuccess(f) ==
    /\ pages' = cleanupCache(PageLoaded(pages, f))
    /\ loadingPages' = loadingPages \ {f.pageIndex}
    /\ FetchDone(f)
    /\ unnotified' = TRUE
    /\ UNCHANGED <<prefetchEnabled, now, nextFid>>
    /\ UNCHANGED <<cacheSize, lastRange>>
    /\ UNCHANGED <<ptrVars, layoutVars, uiVars, selVars>>

\* fetchRows rejects: the catch branch of loadPage
FetchFailure(f) ==
    /\ pages' = PageFailed(pages, f)
    /\ loadingPages' = loadingPages \ {f.pageIndex}
    /\ FetchDone(f)
    /\ UNCHANGED <<prefetchEnabled, now, nextFid, unnotified>>
    /\ UNCHANGED <<cacheSize, lastRange>>
    /\ UNCHANGED <<ptrVars, layoutVars, uiVars, selVars>>

\* ensureDataLoaded after Promise.allSettled(loadPromises): notifyListeners()
ResumeCall(c) ==
    /\ c.awaiting = {}
    /\ calls' = calls \ {c}
    /\ unnotified' = FALSE
    /\ discarded' = "none"
    /\ UNCHANGED <<pages, loadingPages, prefetchEnabled, fetches, now, nextFid,
                   earlyResolved, tainted>>
    /\ UNCHANGED <<cacheSize, lastRange>>
    /\ UNCHANGED <<ptrVars, layoutVars, uiVars, selVars>>

\* clearCache()
ClearCache ==
    /\ pages' = <<>>
    /\ loadingPages' = {}
    /\ tainted' = tainted \cup { f.pageIndex : f \in fetches }
    /\ fetches' = Outdated(fetches)
    /\ discarded' = "none"
    /\ UNCHANGED <<prefetchEnabled, calls, now, nextFid, unnotified, earlyResolved>>
    /\ UNCHANGED <<cacheSize, lastRange>>
    /\ UNCHANGED <<ptrVars, layoutVars, uiVars, selVars>>

\* updateDataSource(dataSource): clearCache() then notifyListeners()
UpdateDataSource(prefetch) ==
    /\ prefetchEnabled' = prefetch
    /\ pages' = <<>>
    /\ loadingPages' = {}
    /\ tainted' = tainted \cup { f.pageIndex : f \in fetches }
    /\ fetches' = Outdated(fetches)
    /\ unnotified' = FALSE
    /\ discarded' = "none"
    /\ UNCHANGED <<calls, now, nextFid, earlyResolved>>
    /\ UNCHANGED <<cacheSize, lastRange>>
    /\ UNCHANGED <<ptrVars, layoutVars, uiVars, selVars>>

\* Time passes
Tick ==
    /\ now < MaxTime
    /\ now' = now + 1
    /\ discarded' = "none"
    /\ UNCHANGED <<pages, loadingPages, prefetchEnabled, fetches, calls, nextFid,
                   unnotified, earlyResolved, tainted>>
    /\ UNCHANGED <<cacheSize, lastRange>>
    /\ UNCHANGED <<ptrVars, layoutVars, uiVars, selVars>>

DataNext ==
    \/ \E s \in RangeStarts : \E e \in RangeEnds(s) : EnsureDataLoaded(s, e)
    \/ \E f \in fetches : FetchSuccess(f)
    \/ \E f \in fetches : FetchFailure(f)
    \/ \E c \in calls : ResumeCall(c)
    \/ ClearCache
    \/ \E b \in BOOLEAN : UpdateDataSource(b)
    \/ Tick

\* A manager whose cache has room for the page of a one-page range, its two
\* prefetch neighbours and more
WideCacheSize == 4

\* new VirtualDataManager(dataSource, { cacheSize: WideCacheSize, ... })
WideCacheInit == Constructed /\ cacheSize = WideCacheSize

\* Calls for visible ranges of one and two pages at the start of the rows;
\* no clearCache
WideCacheNext ==
    \/ \E s \in {0, 1} : \E e \in {s + 1, 2} : EnsureVisibleRange(s, e)
    \/ \E f \in fetches : FetchSuccess(f)
    \/ \E f \in fetches : FetchFailure(f)
    \/ \E c \in calls : ResumeCall(c)
    \/ Tick

\* ======================================================================
\* Part II: pointer handling of the grid controller
\* ======================================================================

\* constants.ts
ROW_HEIGHT == 32

HEADER_HEIGHT == 36

SCROLLBAR_WIDTH == 16

\* new ColumnResizeManager({ ..., handleWidth: 8, ... })
HandleWidth == 8

\* Math.max(dx, dy) >= 4
DragThreshold == 4

\* The modelled grid instance: props of the controller and size of the canvas
\* (fitToCanvas false, resizable and draggableColumns true, onColumnOrderChange
\* given, anchor calculator created; each event names the result of the
\* onEvent override, FALSE when the grid has none). With these sizes
\* the rows overflow the canvas and the columns never do: the vertical
\* scrollbar is always visible, the horizontal one never, and every quotient
\* of the scrollbar arithmetic below is exact.
CanvasWidth == 400

CanvasHeight == 164

TotalRows == 8

ColumnCount == 3

MinColumnWidth == 100

MaxColumnWidth == 120

\* Width of the columns on mount
DEFAULT_COLUMN_WIDTH == 120

\* computeGutterWidth(visibleRange) while the row labels have one digit
GutterWidth == Max(32, Min(128, 8 + 1 * 8 + 8))

\* Pointer positions of the dispatched events
XSamples == {10, 60, 63, 64, 150, 300, 390}

YSamples == {10, 40, 150}

\* Length of the explored event sequences
MaxEvents == 4

Abs(a) == IF a >= 0 THEN a ELSE 0 - a

\* null of a SelectionRange
Null == [type |-> "null"]

ColumnSelection(startCol, endCol) ==
    [type |-> "column", startCol |-> startCol, endCol |-> endCol]

RowSelection(row) == [type |-> "row", startRow |-> row, endRow |-> row]

CellSelection(row, col) == [type |-> "cell", row |-> row, col |-> col]

\* columnDragRef.current = null
NoDrag ==
    [status |-> "none", startX |-> 0, startY |-> 0, startVisibleIndex |-> 0,
     currentPointerX |-> 0, initialOrder |-> <<>>, previewOrder |-> <<>>, selectedDataIndices |-> <<>>]

\* ColumnResizeManager.activeResize = null
NoResize == [columnIndex |-> 0 - 1, startX |-> 0, startWidth |-> 0, currentWidth |-> 0]

\* scrollbarDragRef.current with type null
NoScrollbarDrag == [type |-> "null", pointerOffset |-> 0]

\* Array.from({ length: count }, (_, i) => i)
IdentityOrder(count) == [i \in 1..count |-> i - 1]

RECURSIVE SumFirst(_, _)
SumFirst(ws, k) == IF k = 0 THEN 0 ELSE ws[k] + SumFirst(ws, k - 1)

\* columnWidths.total
ColumnsTotal(ws) == GutterWidth + SumFirst(ws, Len(ws))

\* Left edge of the column at visible index col (0-based), in content space
ColumnStart(ws, col) == GutterWidth + SumFirst(ws, col)

\* scrollLimits of useGridScrolling
MaxScrollTop == Max(0, TotalRows * ROW_HEIGHT + HEADER_HEIGHT - CanvasHeight)

MaxScrollLeft(ws) == Max(0, ColumnsTotal(ws) - CanvasWidth)

\* The clamping setters of useGridScrolling
ClampTop(v) == Max(0, Min(v, MaxScrollTop))

ClampLeft(v, ws) == Max(0, Min(v, MaxScrollLeft(ws)))

\* useScrollbarVisibility: the vertical scrollbar
VerticalVisible == TotalRows * ROW_HEIGHT + HEADER_HEIGHT > CanvasHeight

VerticalThumbHeight ==
    LET scrollableCanvasHeight == CanvasHeight - HEADER_HEIGHT
    IN  Max(20, (scrollableCanvasHeight * scrollableCanvasHeight)
                   \div (TotalRows * ROW_HEIGHT))

VerticalThumbTop ==
    LET scrollableHeight == TotalRows * ROW_HEIGHT + HEADER_HEIGHT - CanvasHeight
        scrollableCanvasHeight == CanvasHeight - HEADER_HEIGHT
    IN  IF scrollableHeight > 0
        THEN HEADER_HEIGHT
             + (scrollTop * (scrollableCanvasHeight - VerticalThumbHeight))
                  \div scrollableHeight
        ELSE HEADER_HEIGHT

\* useScrollbarVisibility: the horizontal scrollbar
HorizontalVisible == ColumnsTotal(columns) > CanvasWidth

HorizontalThumbWidth ==
    Max(20, (CanvasWidth * CanvasWidth) \div ColumnsTotal(columns))

HorizontalThumbLeft ==
    LET scrollableWidth == ColumnsTotal(columns) - CanvasWidth
    IN  IF scrollableWidth > 0
        THEN (scrollLeft * (CanvasWidth - HorizontalThumbWidth)) \div scrollableWidth
        ELSE 0

\* AnchorCalculator.isPointInHeader
isPointInHeader(x, y) == y >= 0 /\ y < HEADER_HEIGHT

\* AnchorCalculator.isPointInGutter
isPointInGutter(x, y) == y >= HEADER_HEIGHT /\ x < GutterWidth

\* The column loop shared by getHeaderColumnFromPoint and getCellFromPoint:
\* the visible index of the column holding adjustedX, -1 for null
ColumnAt(adjustedX) ==
    LET hit == { col \in 0..(Len(columns) - 1) :
                    /\ adjustedX >= ColumnStart(columns, col)
                    /\ adjustedX < ColumnStart(columns, col) + columns[col + 1] }
    IN  IF adjustedX < GutterWidth \/ hit = {} THEN 0 - 1
        ELSE CHOOSE col \in hit : \A other \in hit : col <= other

\* AnchorCalculator.getHeaderColumnFromPoint, -1 for null
getHeaderColumnFromPoint(x, y) ==
    IF ~isPointInHeader(x, y) THEN 0 - 1 ELSE ColumnAt(x + scrollLeft)

\* AnchorCalculator.getRowFromPoint, -1 for null
getRowFromPoint(y) ==
    IF y < HEADER_HEIGHT THEN 0 - 1
    ELSE (y - HEADER_HEIGHT + scrollTop) \div ROW_HEIGHT

\* AnchorCalculator.getCellFromPoint: a cell selection, Null for null
getCellFromPoint(x, y) ==
    IF y < HEADER_HEIGHT \/ ColumnAt(x + scrollLeft) < 0 THEN Null
    ELSE CellSelection((y - HEADER_HEIGHT + scrollTop) \div ROW_HEIGHT,
                       ColumnAt(x + scrollLeft))

\* ColumnResizeManager.getResizeHandles, filtered as dispatchEvent does
\* (h.rect.x >= gutter): the column indices that have a handle
getResizeHandles ==
    LET screenX(col) == ColumnStart(columns, col + 1) - scrollLeft
    IN  { col \in 0..(Len(columns) - 1) :
            /\ \A before \in 0..col : screenX(before) < CanvasWidth + HandleWidth \div 2
            /\ (screenX(col) - HandleWidth \div 2) + HandleWidth > 0
            /\ screenX(col) - HandleWidth \div 2 >= GutterWidth }

\* ColumnResizeManager.getHandleAtPoint: the first handle whose X range holds
\* x (y is not looked at), -1 for null
getHandleAtPoint(x, y) ==
    LET screenX(col) == ColumnStart(columns, col + 1) - scrollLeft
        hit == { col \in getResizeHandles :
                    /\ x >= screenX(col) - HandleWidth \div 2
                    /\ x <= screenX(col) - HandleWidth \div 2 + HandleWidth }
    IN  IF hit = {} THEN 0 - 1
        ELSE CHOOSE col \in hit : \A other \in hit : col <= other

\* ColumnResizeManager.updateResize: the clamped width for pointer position x
updateResize(x) ==
    Max(MinColumnWidth,
        Min(MaxColumnWidth, activeResize.startWidth + (x - activeResize.startX)))

\* useGridColumnWidths.resizeColumn applied to the widths ws
resizeColumn(ws, index, width) ==
    IF index >= 0 /\ index < Len(ws)
    THEN [ws EXCEPT ![index + 1] = Max(MinColumnWidth, Min(MaxColumnWidth, width))]
    ELSE ws

\* Position (1-based) of data index d in an order, 0 when absent (indexOf)
IndexOf(order, d) ==
    IF \E i \in 1..Len(order) : order[i] = d
    THEN CHOOSE i \in 1..Len(order) : order[i] = d
    ELSE 0

\* Promotion of a pending reorder session: the data indices under the column
\* selection, read through the order snapshot (<<>> also stands for null)
SelectedDataIndices(sel, snapshotOrder) ==
    IF sel.type = "column"
    THEN LET start == Max(0, Min(sel.startCol, sel.endCol))
             end == Min(Len(snapshotOrder) - 1, Max(sel.startCol, sel.endCol))
         IN  [i \in 1..Max(0, end - start + 1) |-> snapshotOrder[start + i]]
    ELSE <<>>

\* The drop index of a reorder drag: the first column whose midpoint lies
\* right of x, count when there is none
DropIndex(x) ==
    LET count == Len(columns)
        \* x < boundary + w / 2, doubled to stay in the integers
        leftOfMid(col) == 2 * x < 2 * (ColumnStart(columns, col) - scrollLeft)
                                   + columns[col + 1]
        cand == { col \in 0..(count - 1) : leftOfMid(col) }
    IN  IF cand = {} THEN count
        ELSE CHOOSE col \in cand : \A other \in cand : col <= other

\* The preview order of a reorder drag: the initial order with the dragged
\* column taken out and spliced back at the drop position
PreviewOrderNoShift(initial, movingFrom, dropIndex) ==
    LET count == Len(initial)
        clampedDrop == Max(0, Min(count, dropIndex))
        base == SelectSeq([i \in 1..count |-> [pos |-> i - 1, d |-> initial[i]]],
                          LAMBDA e : e.pos # movingFrom)
        insertIndex == Max(0, Min(Len(base), clampedDrop))
    IN  [i \in 1..count |->
            IF i <= insertIndex THEN base[i].d
            ELSE IF i = insertIndex + 1 THEN initial[movingFrom + 1]
            ELSE base[i - 1].d]

\* A preview order that writes the dragged column over the column at the drop
\* position instead of splicing it in
PreviewOrderOverwrite(initial, movingFrom, dropIndex) ==
    LET target == Max(1, Min(Len(initial), dropIndex + 1))
    IN  [initial EXCEPT ![target] = initial[movingFrom + 1]]

PreviewOrder(initial, movingFrom, dropIndex) ==
    LET count == Len(initial)
        clampedDrop == Max(0, Min(count, dropIndex))
        base == SelectSeq([i \in 1..count |-> [pos |-> i - 1, d |-> initial[i]]],
                          LAMBDA e : e.pos # movingFrom)
        insertIndex == IF movingFrom < clampedDrop
                       THEN Max(0, Min(Len(base), clampedDrop - 1))
                       ELSE Max(0, Min(Len(base), clampedDrop))
    IN  [i \in 1..count |->
            IF i <= insertIndex THEN base[i].d
            ELSE IF i = insertIndex + 1 THEN initial[movingFrom + 1]
            ELSE base[i - 1].d]

\* A remap that looks at the first and the last snapshotted column only
RemappedSelectionEnds(selected, order) ==
    IF selected = <<>> THEN Null
    ELSE ColumnSelection(IndexOf(order, selected[1]) - 1,
                         IndexOf(order, selected[Len(selected)]) - 1)

\* The column selection that follows the selected data indices into order;
\* Null when none of them is found
RemappedSelection(selected, order) ==
    LET mapped == { IndexOf(order, selected[i]) - 1 : i \in 1..Len(selected) } \ {0 - 1}
    IN  IF mapped = {} THEN Null
        ELSE ColumnSelection(CHOOSE a \in mapped : \A b \in mapped : a <= b,
                             CHOOSE a \in mapped : \A b \in mapped : a >= b)

\* The condition under which pointerUp commits the reorder drag
CommitsOrderPending(drag) == drag.status # "none"

CommitsOrder(drag) == drag.status = "dragging"

\* No reorder session: no original span
NoOrigin == [lo |-> 0, hi |-> 0]

\* The highlight computed by the default hover handler on pointerMove
HoverAt(x, y) ==
    IF isPointInHeader(x, y)
    THEN (IF getHeaderColumnFromPoint(x, y) >= 0
          THEN ColumnSelection(getHeaderColumnFromPoint(x, y),
                               getHeaderColumnFromPoint(x, y))
          ELSE Null)
    ELSE IF isPointInGutter(x, y) THEN RowSelection(getRowFromPoint(y))
    ELSE getCellFromPoint(x, y)

PtrInit ==
    /\ selection = Null
    /\ hoverHighlight = Null
    /\ columns = [i \in 1..ColumnCount |-> DEFAULT_COLUMN_WIDTH]
    /\ scrollTop = 0
    /\ scrollLeft = 0
    /\ scrollbarDrag = NoScrollbarDrag
    /\ resizeActive = FALSE
    /\ activeResize = NoResize
    /\ columnDrag = NoDrag
    /\ currentOrder = IdentityOrder(ColumnCount)
    /\ committedOrder = <<>>
    /\ globalPointerUp = FALSE
    /\ lastEvent = [type |-> "none", handled |-> FALSE, ownSpan |-> FALSE, override |-> FALSE]
    /\ dragOrigin = NoOrigin
    /\ emitted = <<>>
    /\ eventCount = 0

\* dispatchEvent({ type: 'pointerDown', payload: { x, y, nativeEvent } }), with
\* res the result of controllerOverrides.onEvent for the event (FALSE also
\* when there is no override)
DispatchPointerDown(x, y, res) ==
    LET \* scrollbar section
        overVertical == VerticalVisible /\ x >= CanvasWidth - SCROLLBAR_WIDTH
        overHorizontal == /\ ~overVertical
                          /\ HorizontalVisible
                          /\ y >= CanvasHeight - SCROLLBAR_WIDTH
        inVerticalThumb == /\ y >= VerticalThumbTop
                           /\ y <= VerticalThumbTop + VerticalThumbHeight
        inHorizontalThumb == /\ x >= HorizontalThumbLeft
                             /\ x <= HorizontalThumbLeft + HorizontalThumbWidth
        startsVertical == overVertical /\ inVerticalThumb
        startsHorizontal == overHorizontal /\ inHorizontalThumb
        \* resize section
        hit == getHandleAtPoint(x, y)
        startsResize == hit >= 0
        \* selection section, skipped once the native event is defaultPrevented
        prevented == overVertical \/ overHorizontal \/ startsResize
        headerCol == getHeaderColumnFromPoint(x, y)
        onHeader == ~prevented /\ isPointInHeader(x, y)
        armsReorder == onHeader /\ headerCol >= 0
        onGutter == ~prevented /\ ~isPointInHeader(x, y) /\ isPointInGutter(x, y)
        onBody == ~prevented /\ ~isPointInHeader(x, y) /\ ~isPointInGutter(x, y)
    IN  /\ eventCount < MaxEvents
        /\ eventCount' = eventCount + 1
        /\ scrollbarDrag' =
              IF startsVertical
              THEN [type |-> "vertical", pointerOffset |-> y - VerticalThumbTop]
              ELSE IF startsHorizontal
              THEN [type |-> "horizontal", pointerOffset |-> x - HorizontalThumbLeft]
              ELSE scrollbarDrag
        /\ resizeActive' = (startsResize \/ resizeActive)
        /\ activeResize' =
              IF startsResize
              THEN [columnIndex |-> hit, startX |-> x,
                    startWidth |-> columns[hit + 1], currentWidth |-> columns[hit + 1]]
              ELSE activeResize
        /\ selection' =
              IF armsReorder THEN ColumnSelection(headerCol, headerCol)
              ELSE IF onGutter /\ getRowFromPoint(y) >= 0
              THEN RowSelection(getRowFromPoint(y))
              ELSE IF onBody /\ getCellFromPoint(x, y) # Null
              THEN getCellFromPoint(x, y)
              ELSE selection
        /\ columnDrag' =
              IF armsReorder
              THEN [status |-> "pending", startX |-> x, startY |-> y,
                    startVisibleIndex |-> headerCol, currentPointerX |-> x,
                    initialOrder |-> <<>>,
                    previewOrder |-> <<>>, selectedDataIndices |-> <<>>]
              ELSE columnDrag
        /\ globalPointerUp' = (\/ globalPointerUp
                               \/ startsVertical \/ startsHorizontal
                               \/ startsResize \/ armsReorder)
        /\ lastEvent' = [type |-> "pointerDown",
                         handled |-> res \/ overVertical \/ overHorizontal
                                         \/ startsResize,
                         ownSpan |-> FALSE, override |-> res]
        /\ dragOrigin' =
              IF armsReorder
              THEN [lo |-> ColumnStart(columns, headerCol) - scrollLeft,
                    hi |-> ColumnStart(columns, headerCol + 1) - scrollLeft]
              ELSE dragOrigin
        /\ emitted' = <<>>
        /\ UNCHANGED <<hoverHighlight, columns, scrollTop, scrollLeft, currentOrder,
                       committedOrder>>
        /\ UNCHANGED <<dataVars, layoutVars, uiVars, selVars>>

\* pointerMove, scrollbar section: the scroll position set by a thumb drag
ScrollbarDragTop(y) ==
    LET contentHeight == Max(1, CanvasHeight - HEADER_HEIGHT
                                  - (IF HorizontalVisible THEN SCROLLBAR_WIDTH ELSE 0))
        travel == Max(1, contentHeight - VerticalThumbHeight)
        thumbTop == Max(0, Min(travel, y - HEADER_HEIGHT - scrollbarDrag.pointerOffset))
    IN  (thumbTop * MaxScrollTop) \div travel

ScrollbarDragLeft(x) ==
    LET contentWidth == Max(1, CanvasWidth
                                 - (IF VerticalVisible THEN SCROLLBAR_WIDTH ELSE 0))
        travel == Max(1, contentWidth - HorizontalThumbWidth)
        thumbLeft == Max(0, Min(travel, x - scrollbarDrag.pointerOffset))
    IN  (thumbLeft * MaxScrollLeft(columns)) \div travel

\* pointerMove, reorder section: the test that promotes a pending session
PromotesOnAnyMove(s, x, y) == s.status = "pending"

Promotes(s, x, y) ==
    /\ s.status = "pending"
    /\ Max(Abs(x - s.startX), Abs(y - s.startY)) >= DragThreshold

\* pointerMove, reorder section: the session after promotion (if due) and
\* after the preview order has been recomputed
MovedDrag(x, y) ==
    LET s == columnDrag
        count == Len(columns)
        promotes == Promotes(s, x, y)
        snapshotOrder == IF count > 0 /\ Len(currentOrder) = count
                         THEN currentOrder ELSE IdentityOrder(count)
        promoted == IF promotes
                    THEN [s EXCEPT !.status = "dragging",
                                   !.initialOrder = snapshotOrder,
                                   !.selectedDataIndices =
                                       SelectedDataIndices(selection, snapshotOrder)]
                    ELSE s
        initial == IF Len(promoted.initialOrder) = count
                   THEN promoted.initialOrder ELSE IdentityOrder(count)
    IN  IF promoted.status = "dragging"
        THEN [promoted EXCEPT !.currentPointerX = x,
                              !.previewOrder =
                 PreviewOrder(initial, promoted.startVisibleIndex, DropIndex(x))]
        ELSE promoted

\* setHoverHighlightLocal(next): the refs after the call
setHoverAndSelection(refs, next) == [selection |-> next, hoverHighlight |-> next]

setHoverHighlightLocal(refs, next) == [refs EXCEPT !.hoverHighlight = next]

\* dispatchEvent({ type: 'pointerMove', payload: { x, y, nativeEvent } })
DispatchPointerMove(x, y, res) ==
    LET dragsVertical == scrollbarDrag.type = "vertical" /\ VerticalVisible
        dragsHorizontal == /\ ~dragsVertical
                           /\ scrollbarDrag.type = "horizontal"
                           /\ HorizontalVisible
        newWidth == updateResize(x)
        widths == IF resizeActive
                  THEN resizeColumn(columns, activeResize.columnIndex, newWidth)
                  ELSE columns
        drag == IF columnDrag.status # "none" THEN MovedDrag(x, y) ELSE columnDrag
        remapped == RemappedSelection(drag.selectedDataIndices, drag.previewOrder)
        handled == res \/ dragsVertical \/ dragsHorizontal \/ resizeActive
        builtIn == [selection |-> IF drag.status = "dragging" /\ remapped # Null
                                  THEN remapped ELSE selection,
                    hoverHighlight |-> hoverHighlight]
        \* the default hover handler runs unless the event was handled before
        refs == IF handled THEN builtIn
                ELSE setHoverHighlightLocal(builtIn, HoverAt(x, y))
    IN  /\ eventCount < MaxEvents
        /\ eventCount' = eventCount + 1
        /\ scrollTop' = IF dragsVertical THEN ClampTop(ScrollbarDragTop(y)) ELSE scrollTop
        \* the new limits clamp the position again once the widths have changed
        /\ scrollLeft' = ClampLeft(IF dragsHorizontal THEN ScrollbarDragLeft(x)
                                   ELSE scrollLeft, widths)
        /\ activeResize' = IF resizeActive
                           THEN [activeResize EXCEPT !.currentWidth = newWidth]
                           ELSE activeResize
        /\ columns' = widths
        /\ columnDrag' = drag
        /\ selection' = refs.selection
        /\ hoverHighlight' = refs.hoverHighlight
        /\ lastEvent' = [type |-> "pointerMove", handled |-> handled,
                         ownSpan |-> FALSE, override |-> res]
        /\ emitted' = <<>>
        /\ UNCHANGED <<scrollbarDrag, resizeActive, currentOrder, committedOrder,
                       globalPointerUp, dragOrigin>>
        /\ UNCHANGED <<dataVars, layoutVars, uiVars, selVars>>

\* pointerUp, reorder section: columnDragRef.current after the event
ReleasedDragKeepPending(drag) == IF drag.status = "pending" THEN drag ELSE NoDrag

ReleasedDrag(drag) == NoDrag

\* dispatchEvent({ type: 'pointerUp', payload }): from the canvas or from the
\* window listeners of ensureGlobalPointerUp
DispatchPointerUp(res) ==
    LET commits == CommitsOrder(columnDrag)
        committed == columnDrag.previewOrder
        remapped == RemappedSelection(columnDrag.selectedDataIndices, committed)
        widths == IF resizeActive
                  THEN resizeColumn(columns, activeResize.columnIndex,
                                    activeResize.currentWidth)
                  ELSE columns
    IN  /\ eventCount < MaxEvents
        /\ eventCount' = eventCount + 1
        /\ scrollbarDrag' = NoScrollbarDrag
        /\ globalPointerUp' = FALSE
        /\ columns' = widths
        /\ scrollLeft' = ClampLeft(scrollLeft, widths)
        /\ activeResize' = IF resizeActive THEN NoResize ELSE activeResize
        /\ resizeActive' = FALSE
        /\ emitted' = IF commits THEN <<committed>> ELSE <<>>
        /\ committedOrder' = IF commits THEN committed ELSE committedOrder
        /\ currentOrder' = IF commits THEN committed ELSE currentOrder
        /\ selection' = IF commits /\ remapped # Null THEN remapped ELSE selection
        /\ columnDrag' = ReleasedDrag(columnDrag)
        /\ lastEvent' = [type |-> "pointerUp", handled |-> res \/ resizeActive,
                         ownSpan |-> /\ commits
                                     /\ columnDrag.currentPointerX >= dragOrigin.lo
                                     /\ columnDrag.currentPointerX < dragOrigin.hi,
                         override |-> res]
        /\ dragOrigin' = NoOrigin
        /\ UNCHANGED <<hoverHighlight, scrollTop>>
        /\ UNCHANGED <<dataVars, layoutVars, uiVars, selVars>>

\* The events of a grid without an onEvent override
PointerDown(x, y) == DispatchPointerDown(x, y, FALSE)

PointerMove(x, y) == DispatchPointerMove(x, y, FALSE)

PointerUp == DispatchPointerUp(FALSE)

PtrNext ==
    \/ \E x \in XSamples : \E y \in YSamples : PointerDown(x, y)
    \/ \E x \in XSamples : \E y \in YSamples : PointerMove(x, y)
    \/ PointerUp

\* handle.setSelection(sel) called by the application (or by keyboard
\* navigation) between two pointer events
HandleSetSelection(sel) ==
    /\ selection # sel
    /\ selection' = sel
    /\ UNCHANGED <<hoverHighlight, columns, scrollTop, scrollLeft, scrollbarDrag,
                   resizeActive, activeResize, columnDrag, currentOrder,
                   committedOrder, globalPointerUp, lastEvent, dragOrigin,
                   emitted, eventCount>>
    /\ UNCHANGED <<dataVars, layoutVars, uiVars, selVars>>

\* The column orders a grid can stand in after earlier reorder commits
ColumnOrders ==
    { o \in [1..ColumnCount -> 0..(ColumnCount - 1)] :
        \A i, j \in 1..ColumnCount : i # j => o[i] # o[j] }

\* Column selections within the columns, startCol <= endCol
ColumnSelections ==
    { ColumnSelection(a, b) : a, b \in 0..(ColumnCount - 1) }

\* Pointer positions of a reorder drag in the header row: one in each column
\* for the pointer-down, and one for each drop index for the moves
ReorderDownX == {60, 200, 300}

ReorderMoveX == {60, 150, 300, 350}

ReorderY == {10}

\* A mounted grid whose columns stand in one of the orders
ReorderInit ==
    /\ selection = Null
    /\ hoverHighlight = Null
    /\ columns = [i \in 1..ColumnCount |-> DEFAULT_COLUMN_WIDTH]
    /\ scrollTop = 0
    /\ scrollLeft = 0
    /\ scrollbarDrag = NoScrollbarDrag
    /\ resizeActive = FALSE
    /\ activeResize = NoResize
    /\ columnDrag = NoDrag
    /\ currentOrder \in ColumnOrders
    /\ committedOrder = <<>>
    /\ globalPointerUp = FALSE
    /\ lastEvent = [type |-> "none", handled |-> FALSE, ownSpan |-> FALSE, override |-> FALSE]
    /\ dragOrigin = NoOrigin
    /\ emitted = <<>>
    /\ eventCount = 0

\* Reorder drags in the header, with selections set in between
ReorderNext ==
    \/ \E x \in ReorderDownX : \E y \in ReorderY : PointerDown(x, y)
    \/ \E x \in ReorderMoveX : \E y \in ReorderY : PointerMove(x, y)
    \/ PointerUp
    \/ \E sel \in ColumnSelections : HandleSetSelection(sel)

\* ======================================================================
\* Part III: layout functions (utils/visibleRange.ts, utils/columnWidth)
\* ======================================================================
\* Lengths are whole pixels. The fractional widths that calculateColumnWidths
\* works with are kept exact, as numerators over one common denominator.

\* Math.floor(a / b) and Math.ceil(a / b) for b > 0
FloorDiv(a, b) == a \div b

CeilDiv(a, b) == 0 - ((0 - a) \div b)

RECURSIVE SeqSum(_)
SeqSum(ws) == IF ws = <<>> THEN 0 ELSE Head(ws) + SeqSum(Tail(ws))

\* calculateVisibleRange(options); o.columns and o.gutter are columnWidths
calculateVisibleRange(o) ==
    LET n == Min(o.totalColumns, Len(o.columns))
        \* trailing edge of column col (0-based), in content space
        endX(col) == o.gutter + SeqSum(SubSeq(o.columns, 1, col + 1))
        startHits == { col \in 0..(n - 1) : endX(col) >= o.scrollLeft }
        startCol == IF startHits = {} THEN 0
                    ELSE CHOOSE c \in startHits : \A d \in startHits : c <= d
        rightEdge == o.scrollLeft + o.canvasWidth
        endHits == { col \in 0..(n - 1) : endX(col) >= rightEdge }
        endFound == IF endHits = {} THEN o.totalColumns
                    ELSE Min(o.totalColumns,
                             (CHOOSE c \in endHits : \A d \in endHits : c <= d) + 1)
        endCol == Min(o.totalColumns, Max(endFound, Len(o.columns)))
        leftOverscan == Min(o.overscan, startCol)
        rightOverscan == Min(o.overscan, o.totalColumns - endCol)
    IN  IF o.canvasWidth <= 0 \/ o.canvasHeight <= 0
        THEN [startRow |-> 0, endRow |-> 0, startCol |-> 0, endCol |-> 0]
        ELSE [startRow |-> FloorDiv(o.scrollTop, o.rowHeight),
              endRow |-> Min(o.totalRows,
                             CeilDiv(o.scrollTop + o.canvasHeight - o.headerHeight,
                                     o.rowHeight) + 1),
              startCol |-> IF o.overscan > 0 THEN startCol - leftOverscan ELSE startCol,
              endCol |-> IF o.overscan > 0 THEN endCol + rightOverscan ELSE endCol]

\* String(n).length for n >= 1
RECURSIVE Digits(_)
Digits(n) == IF n < 10 THEN 1 ELSE 1 + Digits(n \div 10)

\* computeGutterWidth(visibleRange)
computeGutterWidth(vr) ==
    LET maxVisibleRowIndex == Max(0, vr.endRow - 1)
        startDigits == Digits(Max(1, vr.startRow + 1))
        endDigits == Digits(Max(1, maxVisibleRowIndex + 1))
        estimated == 8 + Max(startDigits, endDigits) * 8 + 8
    IN  Max(32, Min(128, estimated))

\* The while loops of calculateColumnWidths that hand out the rounding
\* difference one pixel at a time, round robin over order (column indices,
\* 1-based). step is +1 (grow, up to limit) or -1 (shrink, down to limit).
\* Every round over order moves each column that is not at the limit by one
\* pixel, in order, while diff lasts; rounds in which diff covers all of them
\* are taken together. The loop only ends when diff reaches 0: with diff left
\* and no column of order able to move it spins for ever (returns FALSE).
DistributeNothing(ints, order, diff, step, limit) == [returns |-> TRUE, ints |-> ints]

RECURSIVE Distribute(_, _, _, _, _)
Distribute(ints, order, diff, step, limit) ==
    LET active == SelectSeq(order, LAMBDA c : ints[c] # limit)
        room(c) == (limit - ints[c]) * step
        least == CHOOSE r \in { room(active[j]) : j \in 1..Len(active) } :
                     \A j \in 1..Len(active) : r <= room(active[j])
        rounds == Min(least, diff \div Len(active))
        first == { active[j] : j \in 1..diff }
    IN  IF diff = 0 \/ order = <<>> THEN [returns |-> TRUE, ints |-> ints]
        ELSE IF active = <<>> THEN [returns |-> FALSE, ints |-> ints]
        ELSE IF rounds >= 1
        THEN Distribute([i \in DOMAIN ints |->
                            IF \E j \in 1..Len(active) : active[j] = i
                            THEN ints[i] + rounds * step ELSE ints[i]],
                        order, diff - rounds * Len(active), step, limit)
        ELSE [returns |-> TRUE,
              ints |-> [i \in DOMAIN ints |->
                           IF i \in first THEN ints[i] + step ELSE ints[i]]]

\* The members of a set of column indices as a sequence sorted by key
\* (ascending), ties by index
RECURSIVE SortByKey(_, _)
SortByKey(S, key) ==
    IF S = {} THEN <<>>
    ELSE LET first == CHOOSE i \in S : \A j \in S :
                          key[i] < key[j] \/ (key[i] = key[j] /\ i <= j)
         IN  <<first>> \o SortByKey(S \ {first}, key)

\* calculateColumnWidths(options)
calculateColumnWidths(o) ==
    LET availableWidth == Max(0, o.canvasWidth - o.gutterWidth)
        count == o.columnCount
        existing == o.existingWidths
        \* base widths as numerators over baseDen
        padWith == IF existing # <<>> /\ existing[Len(existing)] # 0
                   THEN existing[Len(existing)] ELSE o.minWidth
        equalShare == o.fitToCanvas /\ existing = <<>>
        baseDen == IF equalShare /\ availableWidth # 0 THEN count ELSE 1
        base == [i \in 1..count |->
                    IF Len(existing) >= count THEN Max(1, existing[i])
                    ELSE IF existing # <<>>
                    THEN (IF i <= Len(existing) THEN existing[i] ELSE padWith)
                    ELSE IF o.fitToCanvas
                    THEN (IF availableWidth # 0 THEN availableWidth ELSE o.minWidth)
                    ELSE DEFAULT_COLUMN_WIDTH]
        baseSum == SeqSum(base)
        \* working floats as numerators over den
        den == IF o.fitToCanvas THEN (IF baseSum = 0 THEN baseDen ELSE baseSum)
               ELSE baseDen
        working == [i \in 1..count |->
                      IF o.fitToCanvas THEN base[i] * availableWidth ELSE base[i]]
        clamped == [i \in 1..count |->
                      Max(o.minWidth * den, Min(o.maxWidth * den, working[i]))]
        ints == [i \in 1..count |-> FloorDiv(clamped[i], den)]
        frac == [i \in 1..count |-> clamped[i] - ints[i] * den]
        diff == IF o.fitToCanvas THEN availableWidth - SeqSum(ints) ELSE 0
        growOrder == SortByKey({ i \in 1..count : o.maxWidth - ints[i] > 0 },
                               [i \in 1..count |-> 0 - frac[i]])
        shrinkOrder == SortByKey({ i \in 1..count : ints[i] - o.minWidth > 0 }, frac)
        spread == IF diff > 0
                  THEN Distribute(ints, growOrder, diff, 1, o.maxWidth)
                  ELSE IF diff < 0
                  THEN Distribute(ints, shrinkOrder, 0 - diff, 0 - 1, o.minWidth)
                  ELSE [returns |-> TRUE, ints |-> ints]
    IN  IF count = 0
        THEN [returns |-> TRUE, columnWidths |-> <<>>, totalWidth |-> o.gutterWidth,
              availableWidth |-> availableWidth]
        ELSE [returns |-> spread.returns, columnWidths |-> spread.ints,
              totalWidth |-> SeqSum(spread.ints) + o.gutterWidth,
              availableWidth |-> availableWidth]

\* ---- calls of the layout functions

NoCall == [kind |-> "none"]

\* Options handed to calculateColumnWidths (minWidth <= maxWidth in all)
WidthInputs ==
    { [kind |-> "widths", canvasWidth |-> cw, columnCount |-> n,
       existingWidths |-> ex, minWidth |-> b[1], maxWidth |-> b[2],
       gutterWidth |-> g, fitToCanvas |-> fit] :
         cw \in {0, 150, 262, 282, 400, 600}, n \in {0, 2, 5},
         ex \in {<<>>, <<110>>, <<100, 120>>, <<120, 120, 120, 120, 120>>},
         b \in {<<60, 400>>, <<100, 120>>}, g \in {32, 40}, fit \in BOOLEAN }

\* Environments handed to computeVisibleRange, the scroll offsets within the
\* scroll limits of useGridScrolling
RangeInputs ==
    { o \in [kind : {"range"}, scrollTop : {0, 31, 32, 128, 287, 288, 291},
             scrollLeft : {0, 32, 152, 391}, canvasWidth : {1, 200, 400},
             canvasHeight : {1, 4, 5, 100, 164}, gutter : {32},
             columns : {<<>>, <<100>>, <<120, 120, 120>>},
             rowHeight : {ROW_HEIGHT}, headerHeight : {HEADER_HEIGHT},
             totalRows : {0, 8}, totalColumns : {0, 1, 3}, overscan : {0, 2}] :
        /\ o.scrollTop <= Max(0, o.totalRows * o.rowHeight + o.headerHeight
                                   - o.canvasHeight)
        /\ o.scrollLeft <= Max(0, o.gutter + SeqSum(o.columns) - o.canvasWidth) }

CalcIdle == fnInput = NoCall /\ fnOutput = NoCall

CalcInit == fnInput \in WidthInputs \cup RangeInputs /\ fnOutput = NoCall

\* calculateColumnWidths(fnInput)
CallCalculateColumnWidths ==
    /\ fnInput.kind = "widths"
    /\ fnOutput = NoCall
    /\ fnOutput' = calculateColumnWidths(fnInput)
    /\ UNCHANGED <<fnInput, composed, dataVars, ptrVars, uiVars, selVars>>

\* computeVisibleRange(fnInput), no override given
CallComputeVisibleRange ==
    /\ fnInput.kind = "range"
    /\ fnOutput = NoCall
    /\ fnOutput' = calculateVisibleRange(fnInput)
    /\ UNCHANGED <<fnInput, composed, dataVars, ptrVars, uiVars, selVars>>

CalcNext == CallCalculateColumnWidths \/ CallComputeVisibleRange

\* ======================================================================
\* Part IV: the composed grid state (hooks/useComposedGridState.ts)
\* ======================================================================
\* The state of useGridColumnWidths, useGridCanvasRect, useGridScrolling and
\* useGridVisibleRange under the operations of the GridHandle, changes of the
\* canvas size and of the totalColumns prop. An operation is one step; each
\* render that follows it, with the effects it runs, is one step as well, and
\* the next operation comes when the effects have nothing left to change.
\* rowHeight and headerHeight are left at their defaults.

\* Options of useComposedGridState the grid is mounted with
ComposedOptions ==
    { [totalRows |-> 12, totalColumns |-> 2, minColumnWidth |-> 100,
       maxColumnWidth |-> 120, fitToCanvas |-> TRUE],
      [totalRows |-> 12, totalColumns |-> 2, minColumnWidth |-> 50,
       maxColumnWidth |-> 100, fitToCanvas |-> FALSE] }

\* The ColumnWidths record built by every setter of useGridColumnWidths
ColumnWidthsOfStaleTotal(gutter, cols, prevTotal) ==
    [gutter |-> gutter, columns |-> cols, total |-> prevTotal]

ColumnWidthsOf(gutter, cols, prevTotal) ==
    [gutter |-> gutter, columns |-> cols, total |-> gutter + SeqSum(cols)]

\* useGridColumnWidths.ensureColumnCount(requiredCount) applied to prev
ensureColumnCount(prev, requiredCount) ==
    IF Len(prev.columns) >= requiredCount THEN prev
    ELSE ColumnWidthsOf(prev.gutter,
                        [i \in 1..requiredCount |->
                            IF i <= Len(prev.columns) THEN prev.columns[i]
                            ELSE DEFAULT_COLUMN_WIDTH],
                        prev.total)

\* useGridColumnWidths.resizeColumn(index, width) applied to prev
hookResizeColumn(prev, index, width, opts) ==
    LET clampMin == Max(1, opts.minColumnWidth)
        clampMax == Max(clampMin, opts.maxColumnWidth)
    IN  IF index >= 0 /\ index < Len(prev.columns)
        THEN ColumnWidthsOf(prev.gutter,
                            [prev.columns EXCEPT ![index + 1] =
                                Max(clampMin, Min(clampMax, width))],
                            prev.total)
        ELSE prev

\* useGridColumnWidths.setGutterWidth(gutter) applied to prev
setGutterWidth(prev, gutter) ==
    LET nextGutter == Max(24, gutter)
    IN  IF prev.gutter = nextGutter THEN prev
        ELSE ColumnWidthsOf(nextGutter, prev.columns, prev.total)

\* scrollLimits of useGridScrolling for the state g
scrollLimits(g) ==
    [maxScrollTop |-> Max(0, g.options.totalRows * ROW_HEIGHT + HEADER_HEIGHT
                               - g.canvasRect.height),
     maxScrollLeft |-> Max(0, g.columnWidths.total - g.canvasRect.width)]

\* The clamping setters of useGridScrolling, with the limits of the render g
setScrollTopUnclamped(g, next) == next

setScrollTop(g, next) == Max(0, Min(next, scrollLimits(g).maxScrollTop))

setScrollLeft(g, next) == Max(0, Min(next, scrollLimits(g).maxScrollLeft))

\* handle.setScroll(top, left)
setScroll(g, top, left) ==
    [g EXCEPT !.scrollTop = setScrollTop(g, top), !.scrollLeft = setScrollLeft(g, left)]

\* The effect of useGridScrolling that follows a change of the limits
ClampEffect(g) ==
    setScroll(g, Min(g.scrollTop, scrollLimits(g).maxScrollTop),
                 Min(g.scrollLeft, scrollLimits(g).maxScrollLeft))

\* The effect of useGridController that recomputes the visible range
VisibleRangeEffect(g) ==
    calculateVisibleRange(
        [scrollTop |-> g.scrollTop, scrollLeft |-> g.scrollLeft,
         canvasWidth |-> g.canvasRect.width, canvasHeight |-> g.canvasRect.height,
         gutter |-> g.columnWidths.gutter, columns |-> g.columnWidths.columns,
         rowHeight |-> ROW_HEIGHT, headerHeight |-> HEADER_HEIGHT,
         totalRows |-> g.options.totalRows, totalColumns |-> g.options.totalColumns,
         overscan |-> 0])

\* The call of calculateColumnWidths made by the coupled gutter/column effect
Redistribution(g) ==
    calculateColumnWidths(
        [canvasWidth |-> g.canvasRect.width,
         columnCount |-> Len(g.columnWidths.columns),
         existingWidths |-> g.columnWidths.columns,
         gutterWidth |-> computeGutterWidth(g.visibleRange),
         minWidth |-> g.options.minColumnWidth,
         maxWidth |-> g.options.maxColumnWidth,
         fitToCanvas |-> g.options.fitToCanvas])

\* The coupled gutter/column effect of useComposedGridState
RedistributeEffect(g) ==
    IF g.canvasRect.width <= 0 THEN g.columnWidths
    ELSE ColumnWidthsOf(computeGutterWidth(g.visibleRange),
                        Redistribution(g).columnWidths, g.columnWidths.total)

\* One render: every effect runs on the state of that render
RenderEffects(g) ==
    [g EXCEPT !.scrollTop = ClampEffect(g).scrollTop,
              !.scrollLeft = ClampEffect(g).scrollLeft,
              !.visibleRange = VisibleRangeEffect(g),
              !.columnWidths = RedistributeEffect(g)]

\* calculateColumnWidths returns in the render of g
RenderReturns(g) == g.canvasRect.width <= 0 \/ Redistribution(g).returns

\* The effects have nothing left to change
Stable == RenderReturns(composed) /\ RenderEffects(composed) = composed

\* The state after the mount of a grid whose canvas has not been measured
Mounted(opts) ==
    [options |-> opts,
     columnWidths |-> ensureColumnCount(
                         [gutter |-> 40, columns |-> <<120>>, total |-> 40 + 120],
                         Max(1, opts.totalColumns)),
     canvasRect |-> [width |-> 0, height |-> 0],
     scrollTop |-> 0, scrollLeft |-> 0,
     visibleRange |-> [startRow |-> 0, endRow |-> 0, startCol |-> 0, endCol |-> 0],
     \* scrollingRef.current
     scrolling |-> FALSE]

ComposedIdle ==
    composed = Mounted([totalRows |-> 12, totalColumns |-> 2, minColumnWidth |-> 100,
                        maxColumnWidth |-> 120, fitToCanvas |-> FALSE])

ComposedInit == \E opts \in ComposedOptions : composed = Mounted(opts)

\* A render whose effects change the state. While calculateColumnWidths does
\* not return the render never ends and nothing else runs.
Render ==
    /\ RenderReturns(composed)
    /\ RenderEffects(composed) # composed
    /\ composed' = RenderEffects(composed)
    /\ UNCHANGED <<fnInput, fnOutput, dataVars, ptrVars, uiVars, selVars>>

\* An operation that leaves the state next behind
Operation(next) ==
    /\ Stable
    /\ composed' = next
    /\ UNCHANGED <<fnInput, fnOutput, dataVars, ptrVars, uiVars, selVars>>

\* handle.setScroll(top, left)
SetScroll(top, left) == Operation(setScroll(composed, top, left))

\* dispatchEvent({ type: 'wheel', payload }) with deltaMode 0
Wheel(deltaX, deltaY, shiftKey) ==
    LET absX == Abs(deltaX)
        absY == Abs(deltaY)
        dx == IF shiftKey \/ absX > absY
              THEN (IF shiftKey THEN deltaY ELSE deltaX) ELSE 0
        dy == IF ~shiftKey /\ absY >= absX THEN deltaY ELSE 0
        nextLeft == Max(0, composed.scrollLeft + dx)
        nextTop == Max(0, composed.scrollTop + dy)
    IN  Operation(IF nextLeft # composed.scrollLeft \/ nextTop # composed.scrollTop
                  THEN setScroll(composed, nextTop, nextLeft)
                  ELSE composed)

\* calculateScrollPosition; the half of the align center is a whole number
\* for the sizes it is called with here
calculateScrollPosition(itemStart, itemEnd, viewportStart, viewportEnd, currentScroll, viewportSize, offset, align) ==
    IF align = "center"
    THEN itemStart - offset - ((viewportSize - offset) - (itemEnd - itemStart)) \div 2
    ELSE IF align = "start" THEN itemStart - offset
    ELSE IF align = "end" THEN itemEnd - viewportSize
    ELSE IF itemStart < viewportStart THEN itemStart - offset
    ELSE IF itemEnd > viewportEnd THEN itemEnd - viewportSize
    ELSE currentScroll

\* handle.scrollToCell(row, col, align) without its guard against calls made
\* before the animation frame that follows a scroll
scrollToCellUnguarded(g, row, col, align) ==
    LET clampedRow == Max(0, Min(g.options.totalRows - 1, row))
        clampedCol == Max(0, Min(g.options.totalColumns - 1, col))
        rowTop == HEADER_HEIGHT + clampedRow * ROW_HEIGHT
        rowBottom == rowTop + ROW_HEIGHT
        viewportTop == g.scrollTop + HEADER_HEIGHT
        viewportBottom == g.scrollTop + g.canvasRect.height
        rowVisible == rowTop >= viewportTop /\ rowBottom <= viewportBottom
        newScrollTop ==
            IF rowVisible THEN g.scrollTop
            ELSE calculateScrollPosition(rowTop, rowBottom, viewportTop, viewportBottom,
                                         g.scrollTop, g.canvasRect.height, HEADER_HEIGHT,
                                         align)
        cols == g.columnWidths.columns
        colLeft == g.columnWidths.gutter
                   + SeqSum(SubSeq(cols, 1, Min(clampedCol, Len(cols))))
        colRight == colLeft + (IF clampedCol < Len(cols) THEN cols[clampedCol + 1] ELSE 0)
        viewportLeft == g.scrollLeft + g.columnWidths.gutter
        viewportRight == g.scrollLeft + g.canvasRect.width
        colVisible == colLeft >= viewportLeft /\ colRight <= viewportRight
        newScrollLeft ==
            IF colVisible THEN g.scrollLeft
            ELSE calculateScrollPosition(colLeft, colRight, viewportLeft, viewportRight,
                                         g.scrollLeft, g.canvasRect.width,
                                         g.columnWidths.gutter, align)
    IN  IF newScrollTop # g.scrollTop \/ newScrollLeft # g.scrollLeft
        THEN [setScroll(g, newScrollTop, newScrollLeft) EXCEPT !.scrolling = TRUE]
        ELSE g

\* handle.scrollToCell(row, col, align): the state it leaves behind
scrollToCell(g, row, col, align) ==
    IF g.scrolling THEN g ELSE scrollToCellUnguarded(g, row, col, align)

ScrollToCell(row, col, align) == Operation(scrollToCell(composed, row, col, align))

\* The requestAnimationFrame callback of scrollToCell
ScrollFrame ==
    /\ composed.scrolling
    /\ composed' = [composed EXCEPT !.scrolling = FALSE]
    /\ UNCHANGED <<fnInput, fnOutput, dataVars, ptrVars, uiVars, selVars>>

\* handle.resizeColumn(index, width)
ResizeColumn(index, width) ==
    Operation([composed EXCEPT !.columnWidths =
                  hookResizeColumn(@, index, width, composed.options)])

\* setGutterWidth(gutter) of useGridColumnWidths
SetGutterWidth(gutter) ==
    Operation([composed EXCEPT !.columnWidths = setGutterWidth(@, gutter)])

\* The totalColumns prop changes: ensureColumnCount(Math.max(1, totalColumns))
SetTotalColumns(n) ==
    Operation([composed EXCEPT !.options.totalColumns = n,
                               !.columnWidths = ensureColumnCount(@, Max(1, n))])

\* The canvas is measured or resized: setCanvasRect({ width, height })
SetCanvasRect(width, height) ==
    Operation([composed EXCEPT !.canvasRect = [width |-> width, height |-> height]])

ComposedNext ==
    \/ Render
    \/ \E to \in {0 - 40, 100, 1000} : SetScroll(to, to)
    \/ \E d \in {0 - 500, 500} : \E shiftKey \in BOOLEAN :
          Wheel(0, d, shiftKey) \/ Wheel(d, 0, shiftKey)
    \/ \E cell \in {<<0, 0>>, <<11, 2>>} : \E align \in {"nearest", "start", "end"} :
          ScrollToCell(cell[1], cell[2], align)
    \/ ScrollFrame
    \/ \E resize \in {<<0, 40>>, <<2, 110>>} : ResizeColumn(resize[1], resize[2])
    \/ SetGutterWidth(10)
    \/ \E n \in {1, 3} : SetTotalColumns(n)
    \/ \E size \in {<<0, 0>>, <<200, 100>>, <<400, 164>>} :
          SetCanvasRect(size[1], size[2])

\* Calls of scrollToCell(row, col, 'nearest') made one after the other, with
\* renders and animation frames in between as they come. fnOutput keeps the
\* last call: its target, its number, and whether it found the guard set.
MaxScrollCalls == 3

NoScrollCall == [kind |-> "none", row |-> 0, col |-> 0, calls |-> 0, guarded |-> FALSE]

ScrollToOptions ==
    { [totalRows |-> 12, totalColumns |-> 3, minColumnWidth |-> 100,
       maxColumnWidth |-> 120, fitToCanvas |-> FALSE] }

ScrollToInit ==
    /\ fnInput = NoCall
    /\ fnOutput = NoScrollCall
    /\ \E opts \in ScrollToOptions : composed = Mounted(opts)

ScrollToCellNearest(row, col) ==
    /\ Stable
    /\ fnOutput.calls < MaxScrollCalls
    /\ composed' = scrollToCell(composed, row, col, "nearest")
    /\ fnOutput' = [kind |-> "scrollToCell", row |-> row, col |-> col,
                    calls |-> fnOutput.calls + 1, guarded |-> composed.scrolling]
    /\ UNCHANGED <<fnInput, dataVars, ptrVars, uiVars, selVars>>

ScrollToNext ==
    \/ Render
    \/ ScrollFrame
    \/ \E cell \in {<<0, 0>>, <<5, 1>>, <<11, 2>>, <<20, 5>>} :
          ScrollToCellNearest(cell[1], cell[2])
    \/ \E size \in {<<200, 100>>, <<400, 164>>} : SetCanvasRect(size[1], size[2])

\* ======================================================================
\* Part V: live column resize in the composed grid
\* ======================================================================
\* The resize section of dispatchEvent (hooks/useGridController.ts) on the state
\* of useComposedGridState: the session of the ColumnResizeManager
\* (activeResize, resizeActive), the column widths with the coupled
\* redistribution effect, and the width-change notifications that
\* useGridColumnWidths.resizeColumn hands to setTimeout. The pointer goes down
\* on a resize handle left of the scrollbar strip, so that the scrollbar,
\* selection and reorder sections of dispatchEvent do nothing in these events.

\* No onColumnWidthChange call yet
NoNotice == [index |-> 0 - 1, width |-> 0]

UiIdle == widthTimers = <<>> /\ widthNotified = NoNotice

\* Options of the grids whose columns are resized
ResizeOptions ==
    { [totalRows |-> 12, totalColumns |-> 3, minColumnWidth |-> 60,
       maxColumnWidth |-> 400, fitToCanvas |-> fit] : fit \in BOOLEAN }

\* Trailing edge of column col (0-based) on screen
handleScreenX(g, col) ==
    g.columnWidths.gutter + SeqSum(SubSeq(g.columnWidths.columns, 1, col + 1))
        - g.scrollLeft

\* getResizeHandles filtered by h.rect.x >= gutter, then getHandleAtPoint:
\* the first column whose handle holds x, -1 for null
handleAtPoint(g, x) ==
    LET handles ==
            { col \in 0..(Len(g.columnWidths.columns) - 1) :
                /\ \A before \in 0..col :
                      handleScreenX(g, before) < g.canvasRect.width + HandleWidth \div 2
                /\ (handleScreenX(g, col) - HandleWidth \div 2) + HandleWidth > 0
                /\ handleScreenX(g, col) - HandleWidth \div 2 >= g.columnWidths.gutter }
        hit == { col \in handles :
                    /\ x >= handleScreenX(g, col) - HandleWidth \div 2
                    /\ x <= handleScreenX(g, col) - HandleWidth \div 2 + HandleWidth }
    IN  IF hit = {} THEN 0 - 1
        ELSE CHOOSE col \in hit : \A other \in hit : col <= other

\* ColumnResizeManager.updateResize(currentX) for the session r
clampedWidth(r, currentX, opts) ==
    Max(opts.minColumnWidth,
        Min(opts.maxColumnWidth, r.startWidth + (currentX - r.startX)))

\* The setTimeout calls made by resizeColumn(index, width) on prev, appended to
\* the pending ones: one when the constrained width differs from the old one
scheduledNothing(timers, prev, index, width, opts) == timers

scheduled(timers, prev, index, width, opts) ==
    LET next == hookResizeColumn(prev, index, width, opts)
    IN  IF index >= 0 /\ index < Len(prev.columns)
           /\ next.columns[index + 1] # prev.columns[index + 1]
        THEN Append(timers, [index |-> index, width |-> next.columns[index + 1]])
        ELSE timers

\* dispatchEvent(pointerDown) at distance off from the centre of the handle
\* of column col
ResizePointerDown(col, off) ==
    LET x == handleScreenX(composed, col) + off
        hit == handleAtPoint(composed, x)
    IN  /\ Stable
        /\ eventCount < MaxEvents
        /\ ~resizeActive
        /\ composed.canvasRect.width > 0
        /\ col < Len(composed.columnWidths.columns)
        /\ x < composed.canvasRect.width - SCROLLBAR_WIDTH
        /\ hit >= 0
        /\ activeResize' = [columnIndex |-> hit, startX |-> x,
                            startWidth |-> composed.columnWidths.columns[hit + 1],
                            currentWidth |-> composed.columnWidths.columns[hit + 1]]
        /\ resizeActive' = TRUE
        /\ globalPointerUp' = TRUE
        /\ lastEvent' = [type |-> "pointerDown", handled |-> TRUE, ownSpan |-> FALSE, override |-> FALSE]
        /\ eventCount' = eventCount + 1
        /\ UNCHANGED <<selection, hoverHighlight, columns, scrollTop, scrollLeft,
                       scrollbarDrag, columnDrag, currentOrder, committedOrder,
                       dragOrigin, emitted>>
        /\ UNCHANGED <<dataVars, layoutVars, uiVars, selVars>>

\* dispatchEvent(pointerMove) of an active resize session, the pointer at
\* distance d from where it went down
ResizePointerMove(d) ==
    LET x == activeResize.startX + d
        newWidth == clampedWidth(activeResize, x, composed.options)
    IN  /\ Stable
        /\ eventCount < MaxEvents
        /\ resizeActive
        /\ activeResize' = [activeResize EXCEPT !.currentWidth = newWidth]
        /\ composed' = [composed EXCEPT !.columnWidths =
                            hookResizeColumn(@, activeResize.columnIndex, newWidth,
                                             composed.options)]
        /\ widthTimers' = scheduled(widthTimers, composed.columnWidths,
                                    activeResize.columnIndex, newWidth, composed.options)
        /\ lastEvent' = [type |-> "pointerMove", handled |-> TRUE, ownSpan |-> FALSE, override |-> FALSE]
        /\ eventCount' = eventCount + 1
        /\ UNCHANGED <<selection, hoverHighlight, columns, scrollTop, scrollLeft,
                       scrollbarDrag, resizeActive, columnDrag, currentOrder,
                       committedOrder, globalPointerUp, dragOrigin, emitted>>
        /\ UNCHANGED <<fnInput, fnOutput, widthNotified, dataVars, selVars>>

\* dispatchEvent(pointerUp) of an active resize session
ResizePointerUp ==
    /\ Stable
    /\ eventCount < MaxEvents
    /\ resizeActive
    /\ composed' = [composed EXCEPT !.columnWidths =
                        hookResizeColumn(@, activeResize.columnIndex,
                                         activeResize.currentWidth, composed.options)]
    /\ widthTimers' = scheduled(widthTimers, composed.columnWidths,
                                activeResize.columnIndex, activeResize.currentWidth,
                                composed.options)
    /\ activeResize' = NoResize
    /\ resizeActive' = FALSE
    /\ globalPointerUp' = FALSE
    /\ lastEvent' = [type |-> "pointerUp", handled |-> TRUE, ownSpan |-> FALSE, override |-> FALSE]
    /\ eventCount' = eventCount + 1
    /\ UNCHANGED <<selection, hoverHighlight, columns, scrollTop, scrollLeft,
                   scrollbarDrag, columnDrag, currentOrder, committedOrder,
                   dragOrigin, emitted>>
    /\ UNCHANGED <<fnInput, fnOutput, widthNotified, dataVars, selVars>>

\* The oldest setTimeout callback runs: onColumnWidthChange(index, width)
WidthTimerFires ==
    /\ widthTimers # <<>>
    /\ widthNotified' = Head(widthTimers)
    /\ widthTimers' = Tail(widthTimers)
    /\ UNCHANGED <<dataVars, ptrVars, layoutVars, selVars>>

\* Distances between the pointer of a pointerMove and the pointer-down position
ResizeMoves == {0 - 80, 30, 300}

\* The canvas of the mounted grid is measured
ResizeCanvasMeasured ==
    /\ composed.canvasRect.width = 0
    /\ SetCanvasRect(400, 164)

ResizeNext ==
    \/ Render
    \/ ResizeCanvasMeasured
    \/ \E col \in {0, 1} : \E off \in {0 - 4, 0, 3} : ResizePointerDown(col, off)
    \/ \E d \in ResizeMoves : ResizePointerMove(d)
    \/ ResizePointerUp
    \/ WidthTimerFires

\* ======================================================================
\* Part VI: committing a selection and the selection transition
\* ======================================================================
\* handle.setSelection / clearSelection / getState of useComposedGridState and
\* the selection transition effect of useGridController. setSelection writes
\* selectionRef.current and queues the state update; the render that follows
\* shows the new state and runs the transition effect; the tick handed to
\* requestAnimationFrame advances the transition. Time is counted from the
\* start of the running transition (performance.now() - start).

\* Calls and prop changes made by the host
MaxSelCalls == 3

\* Values of the selectionTransitionDuration prop, in frames' time units
Durations == {0, 2, 4}

\* Time between two animation frames
FrameTimes == {1, 3}

\* Selections handed to setSelection
SelValues == {CellSelection(0, 0), RowSelection(1)}

\* selectionTransitionRef.current = null
NoTransition == [active |-> FALSE, fromSelection |-> Null, toSelection |-> Null,
                 elapsed |-> 0, span |-> 1, serial |-> 0]

\* progress of a transition as a fraction: progressNum(tr) / tr.span
progressNum(tr) == Max(0, Min(tr.span, tr.elapsed))

SelIdle ==
    /\ selState = Null
    /\ lastSelection = Null
    /\ transition = NoTransition
    /\ frame = FALSE
    /\ duration = 2
    /\ lastCall = [op |-> "none", arg |-> Null]
    /\ selCalls = 0

SelInit ==
    /\ selState = Null
    /\ lastSelection = Null
    /\ transition = NoTransition
    /\ frame = FALSE
    /\ duration \in Durations
    /\ lastCall = [op |-> "none", arg |-> Null]
    /\ selCalls = 0

\* handle.getState().selection
getStateSelection == selection

\* selectionRef.current after handle.setSelection(sel)
committedAfterTransition(ref, sel, tr) == IF tr.active THEN ref ELSE sel

committedRef(ref, sel, tr) == sel

\* handle.setSelection(sel)
SetSelection(sel) ==
    /\ selCalls < MaxSelCalls
    /\ selCalls' = selCalls + 1
    /\ selection' = committedRef(selection, sel, transition)
    /\ lastCall' = [op |-> "setSelection", arg |-> sel]
    /\ UNCHANGED <<selState, lastSelection, transition, frame, duration>>
    /\ UNCHANGED <<hoverHighlight, columns, scrollTop, scrollLeft, scrollbarDrag,
                   resizeActive, activeResize, columnDrag, currentOrder, committedOrder,
                   globalPointerUp, lastEvent, dragOrigin, emitted, eventCount>>
    /\ UNCHANGED <<dataVars, layoutVars, uiVars>>

\* handle.clearSelection()
ClearSelection ==
    /\ selCalls < MaxSelCalls
    /\ selCalls' = selCalls + 1
    /\ selection' = Null
    /\ lastCall' = [op |-> "clearSelection", arg |-> Null]
    /\ UNCHANGED <<selState, lastSelection, transition, frame, duration>>
    /\ UNCHANGED <<hoverHighlight, columns, scrollTop, scrollLeft, scrollbarDrag,
                   resizeActive, activeResize, columnDrag, currentOrder, committedOrder,
                   globalPointerUp, lastEvent, dragOrigin, emitted, eventCount>>
    /\ UNCHANGED <<dataVars, layoutVars, uiVars>>

\* The test of the transition effect that skips the animation
skipsOnZeroDurationOnly(prev, next, d) == d = 0

skipsTransition(prev, next, d) == d = 0 \/ prev = Null \/ next = Null

\* The render that shows the queued selection, and the transition effect it
\* runs: the cleanup of the last run cancels the pending frame, then the
\* transition is dropped or started anew
SelectionRender ==
    LET prev == lastSelection
        next == selection
    IN  /\ selState # selection
        /\ selState' = next
        /\ lastSelection' = next
        /\ IF prev = next
           THEN transition' = transition /\ frame' = FALSE
           ELSE IF skipsTransition(prev, next, duration)
           THEN transition' = NoTransition /\ frame' = FALSE
           ELSE /\ transition' = [active |-> TRUE, fromSelection |-> prev,
                                  toSelection |-> next, elapsed |-> 0,
                                  span |-> duration, serial |-> selCalls]
                /\ frame' = TRUE
        /\ lastCall' = [op |-> "render", arg |-> prev]
        /\ UNCHANGED <<duration, selCalls>>
        /\ UNCHANGED <<dataVars, ptrVars, layoutVars, uiVars>>

\* The selectionTransitionDuration prop changes: the effect runs again, its
\* cleanup cancels the pending frame, and it returns at prev === next
DurationChanges(d) ==
    /\ selCalls < MaxSelCalls
    /\ selState = selection
    /\ d # duration
    /\ selCalls' = selCalls + 1
    /\ duration' = d
    /\ frame' = FALSE
    /\ lastCall' = [op |-> "duration", arg |-> Null]
    /\ UNCHANGED <<selState, lastSelection, transition>>
    /\ UNCHANGED <<dataVars, ptrVars, layoutVars, uiVars>>

\* The transition after a tick at elapsed time e
tick(tr, e) ==
    IF tr = NoTransition THEN tr
    ELSE IF e >= tr.span THEN NoTransition
    ELSE [tr EXCEPT !.elapsed = e]

\* The tick runs, dt after the last frame (or after the start)
AnimationFrame(dt) ==
    LET e == transition.elapsed + dt
    IN  /\ frame
        /\ transition' = tick(transition, e)
        /\ frame' = (e < transition.span)
        /\ lastCall' = [op |-> "frame", arg |-> Null]
        /\ UNCHANGED <<selState, lastSelection, duration, selCalls>>
        /\ UNCHANGED <<dataVars, ptrVars, layoutVars, uiVars>>

SelNext ==
    \/ \E sel \in SelValues : SetSelection(sel)
    \/ ClearSelection
    \/ SelectionRender
    \/ \E d \in Durations : DurationChanges(d)
    \/ \E dt \in FrameTimes : AnimationFrame(dt)

\* ======================================================================
\* Part VII: rectangles (utils/anchorCalculations.ts, utils/selectionRect.ts)
\* ======================================================================
\* The rectangles of AnchorCalculator and the painted selection rectangle of
\* computeSelectionRect, as functions of a selection (or a row and a column)
\* and of the grid dimensions d = [rowHeight, headerHeight, canvasWidth,
\* canvasHeight, gutter, columns, scrollTop, scrollLeft].

\* Number.MAX_SAFE_INTEGER: any number above every row and column index
MAX_SAFE_INTEGER == 1000000

\* A cell selection { type: 'cell', start, end }
CellRange(startRow, startCol, endRow, endCol) == [type |-> "cell", start |-> [row |-> startRow, col |-> startCol], end |-> [row |-> endRow, col |-> endCol]]

\* A row selection { type: 'row', startRow, endRow }
RowRange(startRow, endRow) == [type |-> "row", startRow |-> startRow, endRow |-> endRow]

\* A function that returned null
NullRect == [null |-> TRUE]

AnchorRect(x, y, width, height) == [null |-> FALSE, x |-> x, y |-> y, width |-> width, height |-> height]

getSelectionBounds(sel) ==
    IF sel.type = "cell"
    THEN [startRow |-> Min(sel.start.row, sel.end.row),
          endRow |-> Max(sel.start.row, sel.end.row),
          startCol |-> Min(sel.start.col, sel.end.col),
          endCol |-> Max(sel.start.col, sel.end.col)]
    ELSE IF sel.type = "row"
    THEN [startRow |-> Min(sel.startRow, sel.endRow),
          endRow |-> Max(sel.startRow, sel.endRow),
          startCol |-> 0, endCol |-> MAX_SAFE_INTEGER]
    ELSE [startRow |-> 0, endRow |-> MAX_SAFE_INTEGER,
          startCol |-> Min(sel.startCol, sel.endCol),
          endCol |-> Max(sel.startCol, sel.endCol)]

\* Sum of the first n widths of ws (the loops `for (i = 0; i < n && i < length`)
WidthBefore(ws, n) == SeqSum(SubSeq(ws, 1, Max(0, Min(n, Len(ws)))))

\* The edges startX, endX, startY, endY that getSelectionRect,
\* getSelectionRectUnclamped and computeSelectionRect compute alike before
\* they clamp
selectionEdges(sel, d) ==
    LET b == getSelectionBounds(sel)
        maxCols == Len(d.columns)
        startX == (IF sel.type = "row" THEN 0 ELSE d.gutter - d.scrollLeft)
                     + WidthBefore(d.columns, b.startCol)
        lastCol == Min(b.endCol, maxCols - 1)
        covered == IF lastCol < b.startCol THEN 0
                   ELSE WidthBefore(d.columns, lastCol + 1)
                          - WidthBefore(d.columns, b.startCol)
        endX == IF sel.type = "row" \/ (sel.type = "column" /\ b.endCol >= maxCols - 1)
                THEN d.canvasWidth
                ELSE startX + covered
        startY == IF sel.type = "column" THEN 0
                  ELSE d.headerHeight + b.startRow * d.rowHeight - d.scrollTop
        endY == IF sel.type = "column" THEN d.canvasHeight
                ELSE IF sel.type = "row" /\ b.endRow = MAX_SAFE_INTEGER
                THEN d.canvasHeight
                ELSE d.headerHeight + (b.endRow + 1) * d.rowHeight - d.scrollTop
    IN  [startX |-> startX, endX |-> endX, startY |-> startY, endY |-> endY]

\* AnchorCalculator.getSelectionRect
getSelectionRectLeftTopOnly(sel, d) ==
    LET e == selectionEdges(sel, d)
        x == Max(0, e.startX)
        y == Max(0, e.startY)
        width == Max(0, e.endX - x)
        height == Max(0, e.endY - y)
    IN  IF width <= 0 \/ height <= 0 THEN NullRect ELSE AnchorRect(x, y, width, height)

getSelectionRect(sel, d) ==
    LET e == selectionEdges(sel, d)
        x == Max(0, e.startX)
        y == Max(0, e.startY)
        width == Max(0, Min(e.endX, d.canvasWidth) - x)
        height == Max(0, Min(e.endY, d.canvasHeight) - y)
    IN  IF width <= 0 \/ height <= 0 THEN NullRect ELSE AnchorRect(x, y, width, height)

\* AnchorCalculator.getSelectionRectUnclamped
getSelectionRectUnclamped(sel, d) ==
    LET e == selectionEdges(sel, d)
    IN  AnchorRect(e.startX, e.startY, Max(0, e.endX - e.startX),
                   Max(0, e.endY - e.startY))

\* computeSelectionRect(selection, args), with strokeW the theme's
\* selectionBorderWidth. The result is in half pixels (twice the value in
\* pixels), so that strokeW / 2 is a whole number.
computeSelectionRectNoHeaderClip(sel, d, strokeW) ==
    LET e == selectionEdges(sel, d)
        x0 == 2 * Max(0, e.startX)
        y0 == 2 * Max(0, e.startY)
        width0 == Max(0, 2 * Min(e.endX, d.canvasWidth) - x0)
        height0 == Max(0, 2 * Min(e.endY, d.canvasHeight) - y0)
        r == IF sel.type = "row"
             THEN AnchorRect(Max(strokeW, x0), y0, 2 * d.canvasWidth + 2 * strokeW, height0)
             ELSE IF sel.type = "column"
             THEN AnchorRect(x0, Max(strokeW, y0), width0, 2 * d.canvasHeight + 2 * strokeW)
             ELSE AnchorRect(x0, y0, width0, height0)
    IN  IF r.width <= 0 \/ r.height <= 0 THEN NullRect ELSE r

computeSelectionRect(sel, d, strokeW) ==
    LET e == selectionEdges(sel, d)
        x0 == 2 * Max(0, e.startX)
        y0 == 2 * Max(0, e.startY)
        width0 == Max(0, 2 * Min(e.endX, d.canvasWidth) - x0)
        height0 == Max(0, 2 * Min(e.endY, d.canvasHeight) - y0)
        header == 2 * d.headerHeight
        gutter == 2 * d.gutter
        underHeader(y) == y <= header
        leftOfGutter(x) == x <= gutter
        r == IF sel.type = "row"
             THEN LET x == Max(strokeW, x0)
                      width == 2 * d.canvasWidth + 2 * strokeW
                  IN  IF underHeader(y0)
                      THEN AnchorRect(x, header + strokeW, width, height0 - (header - y0))
                      ELSE AnchorRect(x, y0, width, height0)
             ELSE IF sel.type = "column"
             THEN LET y == Max(strokeW, y0)
                      height == 2 * d.canvasHeight + 2 * strokeW
                  IN  IF leftOfGutter(x0)
                      THEN AnchorRect(gutter + strokeW, y, width0 - (gutter - x0), height)
                      ELSE AnchorRect(x0, y, width0, height)
             ELSE AnchorRect(IF leftOfGutter(x0) THEN gutter + strokeW ELSE x0,
                             IF underHeader(y0) THEN header + strokeW ELSE y0,
                             IF leftOfGutter(x0) THEN width0 - (gutter - x0) ELSE width0,
                             IF underHeader(y0) THEN height0 - (header - y0) ELSE height0)
    IN  IF r.width <= 0 \/ r.height <= 0 THEN NullRect ELSE r

\* x of the left edge of column col on the canvas
columnX(col, d) == d.gutter - d.scrollLeft + WidthBefore(d.columns, col)

\* AnchorCalculator.getCellRect
getCellRect(row, col, d) ==
    IF col < 0 \/ col >= Len(d.columns) THEN NullRect
    ELSE IF row < 0 THEN NullRect
    ELSE LET x == columnX(col, d)
             width == d.columns[col + 1]
             y == d.headerHeight + row * d.rowHeight - d.scrollTop
             height == d.rowHeight
         IN  IF \/ x + width < 0 \/ x > d.canvasWidth
                \/ y + height < d.headerHeight \/ y > d.canvasHeight
             THEN NullRect
             ELSE AnchorRect(Max(0, x), Max(d.headerHeight, y),
                             Min(width, d.canvasWidth - Max(0, x)),
                             Min(height, d.canvasHeight - Max(d.headerHeight, y)))

\* AnchorCalculator.getRowRect
getRowRect(row, d) ==
    IF row < 0 THEN NullRect
    ELSE LET y == d.headerHeight + row * d.rowHeight - d.scrollTop
             height == d.rowHeight
         IN  IF y + height < d.headerHeight \/ y > d.canvasHeight
             THEN NullRect
             ELSE AnchorRect(0, Max(d.headerHeight, y), d.canvasWidth,
                             Min(height, d.canvasHeight - Max(d.headerHeight, y)))

\* AnchorCalculator.getColumnRect
getColumnRect(col, d) ==
    IF col < 0 \/ col >= Len(d.columns) THEN NullRect
    ELSE LET x == columnX(col, d)
             width == d.columns[col + 1]
         IN  IF x + width < 0 \/ x > d.canvasWidth THEN NullRect
             ELSE AnchorRect(Max(0, x), 0, Min(width, d.canvasWidth - Max(0, x)),
                             d.canvasHeight)

\* AnchorCalculator.getHeaderCellRect
getHeaderCellRect(col, d) ==
    IF col < 0 \/ col >= Len(d.columns) THEN NullRect
    ELSE LET x == columnX(col, d)
             width == d.columns[col + 1]
         IN  IF x + width < 0 \/ x > d.canvasWidth THEN NullRect
             ELSE AnchorRect(Max(0, x), 0, Min(width, d.canvasWidth - Max(0, x)),
                             d.headerHeight)

\* Grid dimensions: viewports down to nothing and below the header height,
\* scroll offsets from 0 on
Dimensions ==
    [rowHeight : {ROW_HEIGHT}, headerHeight : {HEADER_HEIGHT},
     canvasWidth : {0, 200, 400}, canvasHeight : {0, 20, 36, 164},
     gutter : {32}, columns : {<<>>, <<120, 120, 120>>},
     scrollTop : {0, 16, 40, 300}, scrollLeft : {0, 50, 200}]

Selections ==
    {CellRange(0, 0, 0, 0), CellRange(3, 2, 1, 1), CellRange(2, 0, 2, 5),
     RowRange(0, 0), RowRange(3, 2), RowRange(1, MAX_SAFE_INTEGER),
     ColumnSelection(0, 0), ColumnSelection(2, 1), ColumnSelection(2, 5)}

StrokeWidths == {0, 1, 2}

\* Calls of the selection rectangle functions and of the cell, row, column
\* and header cell rectangles
RectInputs ==
    { [kind |-> "selection", selection |-> sel, strokeW |-> w, d |-> d] :
         sel \in Selections, w \in StrokeWidths, d \in Dimensions }
    \cup { [kind |-> "cell", row |-> row, col |-> col, d |-> d] :
              row \in {0, 1, 5}, col \in {0, 2, 3}, d \in Dimensions }

RectInit == fnInput \in RectInputs /\ fnOutput = NoCall

Returned(fn, result) ==
    /\ fnOutput = NoCall
    /\ fnOutput' = [fn |-> fn, result |-> result]
    /\ UNCHANGED <<fnInput, composed, dataVars, ptrVars, uiVars, selVars>>

\* The anchor calculator knows no theme: one call for each selection and
\* dimensions
CallGetSelectionRect ==
    /\ fnInput.kind = "selection"
    /\ fnInput.strokeW = 0
    /\ Returned("getSelectionRect", getSelectionRect(fnInput.selection, fnInput.d))

CallGetSelectionRectUnclamped ==
    /\ fnInput.kind = "selection"
    /\ fnInput.strokeW = 0
    /\ Returned("getSelectionRectUnclamped",
                getSelectionRectUnclamped(fnInput.selection, fnInput.d))

CallComputeSelectionRect ==
    /\ fnInput.kind = "selection"
    /\ Returned("computeSelectionRect",
                computeSelectionRect(fnInput.selection, fnInput.d, fnInput.strokeW))

CallGetCellRect ==
    /\ fnInput.kind = "cell"
    /\ Returned("getCellRect", getCellRect(fnInput.row, fnInput.col, fnInput.d))

CallGetRowRect ==
    /\ fnInput.kind = "cell"
    /\ Returned("getRowRect", getRowRect(fnInput.row, fnInput.d))

CallGetColumnRect ==
    /\ fnInput.kind = "cell"
    /\ Returned("getColumnRect", getColumnRect(fnInput.col, fnInput.d))

CallGetHeaderCellRect ==
    /\ fnInput.kind = "cell"
    /\ Returned("getHeaderCellRect", getHeaderCellRect(fnInput.col, fnInput.d))

RectNext ==
    \/ CallGetSelectionRect
    \/ CallGetSelectionRectUnclamped
    \/ CallComputeSelectionRect
    \/ CallGetCellRect
    \/ CallGetRowRect
    \/ CallGetColumnRect
    \/ CallGetHeaderCellRect

\* ======================================================================
\* Part VIII: the scrollbar thumbs (hooks/useScrollbarVisibility.ts and the
\* scrollbar sections of dispatchEvent in hooks/useGridController.ts)
\* ======================================================================
\* Thumb positions, pointer offsets and the scroll offsets computed from
\* them are fractions of a pixel. They are kept exact, as a numerator n over
\* a denominator d > 0 in lowest terms.

RECURSIVE GCD(_, _)
GCD(a, b) == IF b = 0 THEN a ELSE GCD(b, a % b)

Frac(n, d) ==
    LET g == GCD(Abs(n), Abs(d))
        sign == IF d < 0 THEN 0 - 1 ELSE 1
    IN  [n |-> sign * (n \div g), d |-> sign * (d \div g)]

FInt(i) == [n |-> i, d |-> 1]

FAdd(p, q) == Frac(p.n * q.d + q.n * p.d, p.d * q.d)

FSub(p, q) == Frac(p.n * q.d - q.n * p.d, p.d * q.d)

FMul(p, q) == Frac(p.n * q.n, p.d * q.d)

FDiv(p, q) == Frac(p.n * q.d, p.d * q.n)

FLe(p, q) == p.n * q.d <= q.n * p.d

FMax(p, q) == IF FLe(q, p) THEN p ELSE q

FMin(p, q) == IF FLe(p, q) THEN p ELSE q

\* useScrollbarVisibility for a grid g: canvas width and height, totalRows,
\* columnWidths.total, scrollTop and scrollLeft
scrollbarStateOf(g) ==
    LET contentHeight == g.totalRows * ROW_HEIGHT + HEADER_HEIGHT
        contentWidth == g.total
        needsVertical == contentHeight > g.height
        needsHorizontal == contentWidth > g.width
        scrollableHeight == contentHeight - g.height
        scrollableCanvasHeight == g.height - HEADER_HEIGHT
        vRatio == Frac(scrollableCanvasHeight, contentHeight - HEADER_HEIGHT)
        vThumbHeight == FMax(FInt(20), FMul(FInt(scrollableCanvasHeight), vRatio))
        vScrollRatio == IF scrollableHeight > 0
                        THEN Frac(g.scrollTop, scrollableHeight) ELSE FInt(0)
        vThumbTop == FAdd(FInt(HEADER_HEIGHT),
                          FMul(vScrollRatio,
                               FSub(FInt(scrollableCanvasHeight), vThumbHeight)))
        vertical == needsVertical /\ g.height > 0 /\ contentHeight > 0
        scrollableWidth == contentWidth - g.width
        hThumbWidth == FMax(FInt(20), FMul(FInt(g.width), Frac(g.width, contentWidth)))
        hThumbLeft == IF scrollableWidth > 0
                      THEN FMul(Frac(g.scrollLeft, scrollableWidth),
                                FSub(FInt(g.width), hThumbWidth))
                      ELSE FInt(0)
        horizontal == needsHorizontal /\ g.width > 0 /\ contentWidth > 0
    IN  [vertical |-> [visible |-> needsVertical,
                       thumbTop |-> IF vertical THEN vThumbTop ELSE FInt(0),
                       thumbHeight |-> IF vertical THEN vThumbHeight ELSE FInt(0)],
         horizontal |-> [visible |-> needsHorizontal,
                         thumbLeft |-> IF horizontal THEN hThumbLeft ELSE FInt(0),
                         thumbWidth |-> IF horizontal THEN hThumbWidth ELSE FInt(0)]]

\* scrollbarDragRef.current with no session
NoThumbDrag == [type |-> "none", pointerOffset |-> FInt(0)]

\* pointerDown, scrollbar section: scrollbarDragRef.current after the event
thumbGrab(g, x, y) ==
    LET sb == scrollbarStateOf(g)
        v == sb.vertical
        h == sb.horizontal
    IN  IF v.visible /\ x >= g.width - SCROLLBAR_WIDTH
        THEN (IF FLe(v.thumbTop, FInt(y)) /\ FLe(FInt(y), FAdd(v.thumbTop, v.thumbHeight))
              THEN [type |-> "vertical", pointerOffset |-> FSub(FInt(y), v.thumbTop)]
              ELSE NoThumbDrag)
        ELSE IF h.visible /\ y >= g.height - SCROLLBAR_WIDTH
        THEN (IF FLe(h.thumbLeft, FInt(x)) /\ FLe(FInt(x), FAdd(h.thumbLeft, h.thumbWidth))
              THEN [type |-> "horizontal", pointerOffset |-> FSub(FInt(x), h.thumbLeft)]
              ELSE NoThumbDrag)
        ELSE NoThumbDrag

\* The clamping setters of useGridScrolling for the grid g
clampScroll(v, limit) == FMax(FInt(0), FMin(v, FInt(limit)))

\* pointerMove, scrollbar section: the scroll offsets after the event
thumbDrag(g, drag, x, y) ==
    LET sb == scrollbarStateOf(g)
        v == sb.vertical
        h == sb.horizontal
        maxScrollTop == Max(0, g.totalRows * ROW_HEIGHT + HEADER_HEIGHT - g.height)
        maxScrollLeft == Max(0, g.total - g.width)
        contentHeight == Max(1, g.height - HEADER_HEIGHT
                                  - (IF h.visible THEN SCROLLBAR_WIDTH ELSE 0))
        vTravel == FMax(FInt(1), FSub(FInt(contentHeight), v.thumbHeight))
        thumbTop == FMax(FInt(0),
                         FMin(vTravel, FSub(FInt(y - HEADER_HEIGHT), drag.pointerOffset)))
        newScrollTop == FMul(FDiv(thumbTop, vTravel), FInt(maxScrollTop))
        contentWidth == Max(1, g.width - (IF v.visible THEN SCROLLBAR_WIDTH ELSE 0))
        hTravel == FMax(FInt(1), FSub(FInt(contentWidth), h.thumbWidth))
        thumbLeft == FMax(FInt(0), FMin(hTravel, FSub(FInt(x), drag.pointerOffset)))
        newScrollLeft == FMul(FDiv(thumbLeft, hTravel), FInt(maxScrollLeft))
    IN  IF drag.type = "vertical" /\ v.visible
        THEN [scrollTop |-> clampScroll(newScrollTop, maxScrollTop),
              scrollLeft |-> clampScroll(FInt(g.scrollLeft), maxScrollLeft)]
        ELSE IF drag.type = "horizontal" /\ h.visible
        THEN [scrollTop |-> clampScroll(FInt(g.scrollTop), maxScrollTop),
              scrollLeft |-> clampScroll(newScrollLeft, maxScrollLeft)]
        ELSE [scrollTop |-> FInt(g.scrollTop), scrollLeft |-> FInt(g.scrollLeft)]

\* Grids with no scrollbar, with one of the two, and with both, scrolled to
\* offsets within their scroll limits
ThumbGrids ==
    { g \in [kind : {"thumb"}, width : {300, 400}, height : {164, 228},
             totalRows : {4, 8, 12}, total : {392, 560},
             scrollTop : {0, 32, 64, 128}, scrollLeft : {0, 40, 92}] :
        /\ g.scrollTop <= Max(0, g.totalRows * ROW_HEIGHT + HEADER_HEIGHT - g.height)
        /\ g.scrollLeft <= Max(0, g.total - g.width) }

\* Pointer positions: in the body, in the strip of the vertical scrollbar of
\* either canvas width, in the strip of the horizontal one of either height
ThumbX == {100, 200, 290, 390}

ThumbY == {40, 100, 150, 220}

ThumbInit == fnInput \in ThumbGrids /\ fnOutput = NoCall

\* dispatchEvent({ type: 'pointerDown', payload: { x, y } }), scrollbar section
ThumbPointerDown(x, y) ==
    /\ fnInput.kind = "thumb"
    /\ fnOutput = NoCall
    /\ x < fnInput.width
    /\ y < fnInput.height
    /\ fnOutput' = [kind |-> "down", x |-> x, y |-> y, drag |-> thumbGrab(fnInput, x, y)]
    /\ UNCHANGED <<fnInput, composed, dataVars, ptrVars, uiVars, selVars>>

\* dispatchEvent({ type: 'pointerMove', payload: { x, y } }) that follows,
\* scrollbar section, before the next render
ThumbPointerMove(x, y) ==
    /\ fnInput.kind = "thumb"
    /\ fnOutput # NoCall
    /\ fnOutput.kind = "down"
    /\ fnOutput' = [kind |-> "move", x |-> x, y |-> y, drag |-> fnOutput.drag,
                    samePosition |-> (x = fnOutput.x /\ y = fnOutput.y),
                    scroll |-> thumbDrag(fnInput, fnOutput.drag, x, y)]
    /\ UNCHANGED <<fnInput, composed, dataVars, ptrVars, uiVars, selVars>>

ThumbNext ==
    \/ \E x \in ThumbX : \E y \in ThumbY : ThumbPointerDown(x, y)
    \/ \E x \in ThumbX : \E y \in ThumbY : ThumbPointerMove(x, y)

\* ======================================================================
\* Part IX: keyboard navigation (KeyboardNavigationManager)
\* ======================================================================
\* The manager's state is kept in fnOutput: focusedCell and selectionAnchor
\* (NoCell for null), and as history the number of keys handled, the length
\* of the current run of shift-modified navigation keys and the cell that
\* was focused when that run began. The grid handle is the composed grid
\* state and the committed selection.

NoCell == [row |-> 0 - 1, col |-> 0 - 1]

Cell(row, col) == [row |-> row, col |-> col]

\* new KeyboardNavigationManager({ ..., rowCount, columnCount, pageSize }),
\* every key group enabled
KeyOptions == [rowCount |-> 4, columnCount |-> 3, pageSize |-> 2]

MaxKeys == 3

ArrowKeys == {"ArrowUp", "ArrowDown", "ArrowLeft", "ArrowRight"}

PageKeys == {"PageUp", "PageDown"}

HomeEndKeys == {"Home", "End"}

\* The key events the manager handles
KeyEvents ==
    { [key |-> k, shiftKey |-> sh, modifierKey |-> mod] :
        k \in ArrowKeys \cup HomeEndKeys, sh \in BOOLEAN, mod \in BOOLEAN }
    \cup { [key |-> k, shiftKey |-> sh, modifierKey |-> FALSE] :
             k \in PageKeys \cup {"Tab", "Enter"}, sh \in BOOLEAN }
    \cup { [key |-> "Escape", shiftKey |-> FALSE, modifierKey |-> FALSE],
           [key |-> "a", shiftKey |-> FALSE, modifierKey |-> TRUE] }

\* The keys of handleArrowKey, handlePageKey and handleHomeEnd with shift
ExtendsSelection(ev) ==
    ev.shiftKey /\ ev.key \in ArrowKeys \cup PageKeys \cup HomeEndKeys

getInitialFocusCell(sel) ==
    IF sel.type = "cell" THEN sel.start
    ELSE IF sel.type = "row" THEN Cell(sel.startRow, 0)
    ELSE IF sel.type = "column" THEN Cell(0, sel.startCol)
    ELSE Cell(0, 0)

\* The cell a key moves the focus to
newCellOf(ev, cell) ==
    LET lastRow == KeyOptions.rowCount - 1
        lastCol == KeyOptions.columnCount - 1
    IN  CASE ev.key = "ArrowUp" ->
               [cell EXCEPT !.row = IF ev.modifierKey THEN 0 ELSE Max(0, cell.row - 1)]
          [] ev.key = "ArrowDown" ->
               [cell EXCEPT !.row = IF ev.modifierKey THEN lastRow
                                    ELSE Min(lastRow, cell.row + 1)]
          [] ev.key = "ArrowLeft" ->
               [cell EXCEPT !.col = IF ev.modifierKey THEN 0 ELSE Max(0, cell.col - 1)]
          [] ev.key = "ArrowRight" ->
               [cell EXCEPT !.col = IF ev.modifierKey THEN lastCol
                                    ELSE Min(lastCol, cell.col + 1)]
          [] ev.key = "PageUp" ->
               [cell EXCEPT !.row = Max(0, cell.row - KeyOptions.pageSize)]
          [] ev.key = "PageDown" ->
               [cell EXCEPT !.row = Min(lastRow, cell.row + KeyOptions.pageSize)]
          [] ev.key = "Home" ->
               IF ev.modifierKey THEN Cell(0, 0) ELSE [cell EXCEPT !.col = 0]
          [] ev.key = "End" ->
               IF ev.modifierKey THEN Cell(lastRow, lastCol)
               ELSE [cell EXCEPT !.col = lastCol]
          [] ev.key = "Tab" /\ ev.shiftKey ->
               LET wraps == cell.col - 1 < 0 /\ cell.row > 0
               IN  Cell(Max(0, IF wraps THEN cell.row - 1 ELSE cell.row),
                        Max(0, IF wraps THEN lastCol ELSE cell.col - 1))
          [] ev.key = "Tab" /\ ~ev.shiftKey ->
               LET wraps == cell.col + 1 >= KeyOptions.columnCount /\ cell.row < lastRow
               IN  Cell(Min(lastRow, IF wraps THEN cell.row + 1 ELSE cell.row),
                        Min(lastCol, IF wraps THEN 0 ELSE cell.col + 1))
          [] ev.key = "Enter" ->
               [cell EXCEPT !.row = IF ev.shiftKey THEN Max(0, cell.row - 1)
                                    ELSE Min(lastRow, cell.row + 1)]
          [] OTHER -> cell

\* The align of the scrollToCell call a key ends with
alignOf(ev) ==
    IF ev.key \in PageKeys \/ (ev.key \in HomeEndKeys /\ ev.modifierKey)
    THEN "center" ELSE "nearest"

\* An anchor that moves along with the focus
anchorAtFocus(anchor, focused) == focused

\* if (!this.state.selectionAnchor) this.state.selectionAnchor = focusedCell
anchorForExtend(anchor, focused) == IF anchor = NoCell THEN focused ELSE anchor

\* expandSelectionToRange(startCell, endCell, 'cell')
expandSelectionToRange(startCell, endCell) ==
    CellRange(startCell.row, startCell.col, endCell.row, endCell.col)

\* The manager before its first key, on a grid that has been measured and
\* has rendered until its effects had nothing left to change
RECURSIVE AfterRenders(_)
AfterRenders(g) == IF RenderEffects(g) = g THEN g ELSE AfterRenders(RenderEffects(g))

NoKeys == [kind |-> "keys", focusedCell |-> NoCell, selectionAnchor |-> NoCell,
           keys |-> 0, run |-> 0, runStart |-> NoCell]

KeyInit ==
    /\ fnInput = NoCall
    /\ fnOutput = NoKeys
    /\ composed = AfterRenders([Mounted([totalRows |-> KeyOptions.rowCount,
                                    totalColumns |-> KeyOptions.columnCount,
                                    minColumnWidth |-> 100, maxColumnWidth |-> 120,
                                    fitToCanvas |-> FALSE])
                             EXCEPT !.canvasRect = [width |-> 200, height |-> 100]])

\* manager.handleKeyDown(event, handle.getState().selection)
HandleKeyDown(ev) ==
    LET m == fnOutput
        focused == IF m.focusedCell = NoCell THEN getInitialFocusCell(selection)
                   ELSE m.focusedCell
        newCell == newCellOf(ev, focused)
        moves == ev.key \notin {"Escape", "a"}
        extends == ExtendsSelection(ev)
        anchor == IF extends THEN anchorForExtend(m.selectionAnchor, focused)
                  ELSE IF ev.key = "a" THEN Cell(0, 0)
                  ELSE NoCell
    IN  /\ fnOutput.kind = "keys"
        /\ Stable
        /\ m.keys < MaxKeys
        /\ fnOutput' = [kind |-> "keys",
                        focusedCell |-> IF moves THEN newCell
                                        ELSE IF ev.key = "a" THEN Cell(0, 0)
                                        ELSE focused,
                        selectionAnchor |-> anchor,
                        keys |-> m.keys + 1,
                        run |-> IF extends THEN m.run + 1 ELSE 0,
                        runStart |-> IF ~extends THEN NoCell
                                     ELSE IF m.run = 0 THEN focused
                                     ELSE m.runStart]
        /\ selection' = IF extends THEN expandSelectionToRange(anchor, newCell)
                        ELSE IF moves THEN expandSelectionToRange(newCell, newCell)
                        ELSE IF ev.key = "a"
                        THEN CellRange(0, 0, KeyOptions.rowCount - 1,
                                       KeyOptions.columnCount - 1)
                        ELSE Null
        /\ composed' = IF moves
                       THEN scrollToCell(composed, newCell.row, newCell.col, alignOf(ev))
                       ELSE composed
        /\ UNCHANGED <<hoverHighlight, columns, scrollTop, scrollLeft, scrollbarDrag,
                       resizeActive, activeResize, columnDrag, currentOrder,
                       committedOrder, globalPointerUp, lastEvent, dragOrigin,
                       emitted, eventCount>>
        /\ UNCHANGED <<fnInput, dataVars, uiVars, selVars>>

\* Keys, with the renders and animation frames that follow them, and
\* selections made by other means in between
KeyNext ==
    \/ \E ev \in KeyEvents : HandleKeyDown(ev)
    \/ Render
    \/ ScrollFrame
    \/ \E sel \in {RowRange(1, 1), ColumnSelection(2, 2), CellRange(2, 1, 2, 1)} :
          fnOutput.keys < MaxKeys /\ HandleSetSelection(sel)

Init == DataInit /\ PtrInit /\ CalcIdle /\ ComposedIdle /\ UiIdle /\ SelIdle

SpecData == Init /\ [][DataNext]_vars

SpecPointer == Init /\ [][PtrNext]_vars

\* A layout function is about to be called with arguments of the bounded sets
InitCalc == DataInit /\ PtrInit /\ CalcInit /\ ComposedIdle /\ UiIdle /\ SelIdle

SpecCalc == InitCalc /\ [][CalcNext]_vars

\* The grid has been mounted with one of the option records
InitComposed == DataInit /\ PtrInit /\ CalcIdle /\ ComposedInit /\ UiIdle /\ SelIdle

SpecComposed == InitComposed /\ [][ComposedNext]_vars

\* A grid of ResizeOptions has been mounted
InitResize ==
    /\ DataInit /\ PtrInit /\ CalcIdle /\ UiIdle /\ SelIdle
    /\ \E opts \in ResizeOptions : composed = Mounted(opts)

SpecResize == InitResize /\ [][ResizeNext]_vars

\* A scheduled setTimeout callback runs in the end
SpecResizeFair == SpecResize /\ WF_vars(WidthTimerFires)

\* Pointer events of a grid with an onEvent override, the renders that show
\* a selection they committed, and the animation frames of the transition;
\* the pointer is over a column header or a body row, in column 0, on the
\* resize handle of column 0, or in column 2
DispatchX == {60, 150, 300}

DispatchY == {10, 40}

DispatchNext ==
    \/ \E x \in DispatchX : \E y \in DispatchY : \E res \in BOOLEAN :
          DispatchPointerDown(x, y, res)
    \/ \E x \in DispatchX : \E y \in DispatchY : \E res \in BOOLEAN :
          DispatchPointerMove(x, y, res)
    \/ \E res \in BOOLEAN : DispatchPointerUp(res)
    \/ SelectionRender
    \/ \E dt \in FrameTimes : AnimationFrame(dt)

SpecDispatch == Init /\ [][DispatchNext]_vars

InitReorder == DataInit /\ ReorderInit /\ CalcIdle /\ ComposedIdle /\ UiIdle /\ SelIdle

SpecReorder == InitReorder /\ [][ReorderNext]_vars

InitThumb == DataInit /\ PtrInit /\ ThumbInit /\ ComposedIdle /\ UiIdle /\ SelIdle

SpecThumb == InitThumb /\ [][ThumbNext]_vars

InitScrollTo == DataInit /\ PtrInit /\ ScrollToInit /\ UiIdle /\ SelIdle

SpecScrollTo == InitScrollTo /\ [][ScrollToNext]_vars

InitKeys == DataInit /\ PtrInit /\ KeyInit /\ UiIdle /\ SelIdle

SpecKeys == InitKeys /\ [][KeyNext]_vars

InitRect == DataInit /\ PtrInit /\ RectInit /\ ComposedIdle /\ UiIdle /\ SelIdle

SpecRect == InitRect /\ [][RectNext]_vars

\* A grid with no selection and one of the durations has been mounted
InitSelection == DataInit /\ PtrInit /\ CalcIdle /\ ComposedIdle /\ UiIdle /\ SelInit

SpecSelection == InitSelection /\ [][SelNext]_vars

\* The browser keeps running animation frames, and a queued render is made
SpecSelectionFair ==
    /\ SpecSelection
    /\ WF_vars(\E dt \in FrameTimes : AnimationFrame(dt))
    /\ WF_vars(SelectionRender)

InitWideCache == WideCacheInit /\ PtrInit /\ CalcIdle /\ ComposedIdle /\ UiIdle /\ SelIdle

SpecWideCache == InitWideCache /\ [][WideCacheNext]_vars

\* The event loop runs every settled promise's continuation: a fetchRows call
\* settles, and an ensureDataLoaded whose loads have all settled resumes.
\* Calls of the public methods are up to the caller and carry no fairness.
SpecDataFair ==
    /\ SpecData
    /\ WF_vars(\E f \in fetches : FetchSuccess(f) \/ FetchFailure(f))
    /\ WF_vars(\E c \in calls : ResumeCall(c))

\* ---------------------------------------------------------------- claims

PageIndices == 0..(TotalPages - 1)

\* The fetchRows calls started by a step
Started == { f \in fetches' : \A g \in fetches : g.fid # f.fid }

\* The fetchRows calls settled by a step
Settled == { f \in fetches : \A g \in fetches' : g.fid # f.fid }

\* C1: a fetch is started only for a page that is not marked loading, so that
\* overlapping ensureDataLoaded calls issued while the first one's fetches are
\* in flight (and with no clearCache in between) fetch each page once.
C1_NoDoubleFetch ==
    [][\A f \in Started :
          /\ f.pageIndex \notin loadingPages
          /\ f.pageIndex \notin tainted => FetchesOf(f.pageIndex) = {}]_vars

\* C1 witness: a later call covered a page whose fetch is still in flight and
\* started nothing for it.
C1_Witness ==
    \E f \in fetches :
        /\ f.fid \in earlyResolved
        /\ f.pageIndex \in loadingPages
        /\ FetchesOf(f.pageIndex) = {f}

\* C2: the number of pages stored in the cache is at most cacheSize, whatever
\* the interleaving of fetch starts, successes and failures.
C2_CacheBounded == Len(pages) <= CacheSize

\* C3: a page whose fetch has failed is not fetched again by a later
\* ensureDataLoaded call that covers it.
C3_NoRetryOfErrored ==
    [][\A f \in Started :
          LET i == PagePos(pages, f.pageIndex)
          IN  ~(i # 0 /\ pages[i].error)]_vars

\* C6: when a call covers a page that is already loading, no second fetch is
\* issued for it and the call's promise does not resolve while that fetch is
\* still in flight.
C6_SecondCallerWaits ==
    /\ \A p \in PageIndices : p \notin tainted => Cardinality(FetchesOf(p)) <= 1
    /\ earlyResolved = {}

\* C7: every successful fetch, required or prefetch, is followed by a change
\* notification.
C7_SuccessNotified == unnotified ~> ~unnotified

\* C8: when the fetch of a page that was evicted while in flight completes,
\* nothing is inserted into the cache and no cached page is changed: every
\* entry held afterwards is an entry held before, unaltered.
C8_EvictedResultDiscarded ==
    [][\A f \in Settled :
          ~Attached(f) =>
              /\ \A i \in 1..Len(pages') : \E j \in 1..Len(pages) : pages'[i] = pages[j]
              /\ CachedIndices(pages') \subseteq CachedIndices(pages)]_vars

\* C8 witness: the fetch of a page evicted by cleanupCache has just completed.
C8_Witness == discarded = "evicted"

\* C9: hasError never returns an error that came from a fetch started as a
\* prefetch.
C9_PrefetchErrorHidden ==
    \A s \in RangeStarts : \A e \in RangeEnds(s) :
        hasError(s, e) # 0 => pages[hasError(s, e)].kind # "prefetch"

\* The drag sessions of the controller
ResizeSession == resizeActive

ReorderSession == columnDrag.status = "dragging"

ScrollbarSession == scrollbarDrag.type # "null"

\* C4: at most one of the resize, reorder and scrollbar drag sessions is
\* active in every reachable state.
C4_AtMostOneSession ==
    /\ ~(ResizeSession /\ ReorderSession)
    /\ ~(ResizeSession /\ ScrollbarSession)
    /\ ~(ReorderSession /\ ScrollbarSession)

\* C5: an event notifies a column-order change exactly when it is the
\* pointer-up that releases a promoted reorder drag; it then notifies once,
\* with the preview order of the drag, and ends the drag, so that a further
\* pointer-up notifies nothing. Pointer-down, pointer-move and the release of
\* a pending session notify nothing.
C5_OrderNotification ==
    [][/\ emitted' = IF lastEvent'.type = "pointerUp" /\ columnDrag.status = "dragging"
                     THEN <<columnDrag.previewOrder>>
                     ELSE <<>>
       /\ lastEvent'.type = "pointerUp" => columnDrag'.status = "none"]_vars

\* C5 witness: the release of a promoted drag has just notified an order
\* that differs from the order before the drag.
C5_Witness ==
    /\ lastEvent.type = "pointerUp"
    /\ Len(emitted) = 1
    /\ emitted[1] # IdentityOrder(ColumnCount)

\* C10: a pointer-down dispatched while a drag session is active starts no
\* session, leaves the active session as it is and does not change the
\* selection.
C10_PointerDownIgnored ==
    [][(/\ lastEvent'.type = "pointerDown"
        /\ eventCount' # eventCount
        /\ ResizeSession \/ ReorderSession \/ ScrollbarSession)
       => UNCHANGED <<selection, scrollbarDrag, resizeActive, activeResize,
                      columnDrag>>]_vars

\* C11: a pointer-move makes a pending reorder session active exactly when
\* max(|dx|, |dy|), measured from the position of the pointer-down that armed
\* it, is at least 4 px; a pointer-down never makes a session active.
C11_PromotionThreshold ==
    [][/\ (lastEvent'.type = "pointerMove" /\ columnDrag.status = "none")
            => columnDrag' = columnDrag
       /\ (lastEvent'.type = "pointerMove" /\ columnDrag.status = "pending")
            => \A x \in XSamples : \A y \in YSamples :
                  LET dx == IF x >= columnDrag.startX THEN x - columnDrag.startX
                            ELSE columnDrag.startX - x
                      dy == IF y >= columnDrag.startY THEN y - columnDrag.startY
                            ELSE columnDrag.startY - y
                      far == dx >= 4 \/ dy >= 4
                  IN  PointerMove(x, y)
                        => /\ far => columnDrag'.status = "dragging"
                           /\ ~far => columnDrag' = columnDrag
       /\ lastEvent'.type = "pointerDown"
            => columnDrag'.status = "pending" \/ columnDrag' = columnDrag]_vars

\* C11 witness: a pending session has just seen a pointer-move 3 px away
\* from its pointer-down position and is still pending.
C11_Witness ==
    /\ lastEvent.type = "pointerMove"
    /\ columnDrag.status = "pending"
    /\ columnDrag.startX = 60
    /\ hoverHighlight = ColumnSelection(0, 0)

C13_IdleAfterPointerUp ==
    lastEvent.type = "pointerUp"
        => /\ scrollbarDrag = NoScrollbarDrag
           /\ ~resizeActive
           /\ activeResize = NoResize
           /\ columnDrag = NoDrag
           /\ ~globalPointerUp

\* C13 witness: a pointer-up has just ended a resize session and an active
\* reorder session that existed together.
C13_Witness ==
    /\ lastEvent.type = "pointerUp"
    /\ lastEvent.handled
    /\ Len(emitted) = 1

\* C14: when a column has been dragged past the threshold and is released
\* with the pointer over the span the column had before the drag, the
\* committed column order equals the order before the drag.
C14_DropOnOwnSpan ==
    [][(/\ lastEvent'.type = "pointerUp"
        /\ columnDrag.status = "dragging"
        /\ columnDrag.currentPointerX >= dragOrigin.lo
        /\ columnDrag.currentPointerX < dragOrigin.hi)
       => /\ emitted' = <<currentOrder>>
          /\ committedOrder' = currentOrder
          /\ currentOrder' = currentOrder]_vars

\* C14 witness: a column dragged past the threshold has just been released
\* with the pointer over its own original span.
C14_Witness ==
    /\ lastEvent.type = "pointerUp"
    /\ lastEvent.ownSpan
    /\ Len(emitted) = 1

C16_VisibleRangeOrdered ==
    (fnInput.kind = "range" /\ fnOutput # NoCall) =>
        /\ fnOutput.startRow >= 0
        /\ fnOutput.endRow >= fnOutput.startRow
        /\ fnOutput.startCol >= 0
        /\ fnOutput.endCol >= fnOutput.startCol

\* C17: for all inputs with minWidth <= maxWidth, calculateColumnWidths returns,
\* the totalWidth it returns equals gutterWidth plus the sum of the returned
\* column widths, and every returned column width lies in [minWidth, maxWidth].
C17_WidthsTotalAndRange ==
    (fnInput.kind = "widths" /\ fnInput.minWidth <= fnInput.maxWidth /\ fnOutput # NoCall) =>
        /\ fnOutput.returns
        /\ fnOutput.totalWidth = fnInput.gutterWidth + SeqSum(fnOutput.columnWidths)
        /\ \A i \in 1..Len(fnOutput.columnWidths) :
              /\ fnOutput.columnWidths[i] >= fnInput.minWidth
              /\ fnOutput.columnWidths[i] <= fnInput.maxWidth

\* C18: with fitToCanvas true and canvasWidth - gutterWidth between
\* columnCount*minWidth and columnCount*maxWidth, calculateColumnWidths returns
\* column widths that sum exactly to canvasWidth - gutterWidth; five 120 px
\* columns behind a 40 px gutter on a 600 px canvas with bounds [60, 400] come
\* out as 112 each, 560 in all.
C18_FitsCanvasExactly ==
    (/\ fnInput.kind = "widths"
     /\ fnInput.fitToCanvas
     /\ fnInput.columnCount * fnInput.minWidth <= fnInput.canvasWidth - fnInput.gutterWidth
     /\ fnInput.canvasWidth - fnInput.gutterWidth <= fnInput.columnCount * fnInput.maxWidth
     /\ fnOutput # NoCall) =>
        /\ fnOutput.returns
        /\ SeqSum(fnOutput.columnWidths) = fnInput.canvasWidth - fnInput.gutterWidth
        /\ (/\ fnInput.canvasWidth = 600 /\ fnInput.gutterWidth = 40
            /\ fnInput.columnCount = 5 /\ fnInput.minWidth = 60
            /\ Len(fnInput.existingWidths) = 5) =>
               fnOutput.columnWidths = <<112, 112, 112, 112, 112>>

\* Five columns share 368 px: 73.6 each, so three of them take the extra pixel
C18_Witness ==
    /\ fnInput.kind = "widths"
    /\ fnInput.fitToCanvas
    /\ fnInput.canvasWidth = 400 /\ fnInput.gutterWidth = 32
    /\ fnInput.columnCount = 5 /\ fnInput.minWidth = 60
    /\ fnOutput # NoCall
    /\ fnOutput.returns
    /\ fnOutput.columnWidths = <<74, 74, 74, 73, 73>>

\* C19: in every ColumnWidths state produced by resizeColumn, setGutterWidth,
\* ensureColumnCount or the coupled gutter/column redistribution, total equals
\* gutter plus the sum of columns.
C19_TotalIsGutterPlusColumns ==
    composed.columnWidths.total =
        composed.columnWidths.gutter + SeqSum(composed.columnWidths.columns)

\* A third column was added, the redistribution set the gutter to 32 and the
\* first column was resized to the minimum
C19_Witness ==
    /\ composed.columnWidths.gutter = 32
    /\ Len(composed.columnWidths.columns) = 3
    /\ composed.columnWidths.columns[1] = 50
    /\ composed.columnWidths.total = 32 + 50 + 100 + 100

\* C20: once the effects that follow an operation have run, whatever the
\* sequence of resizeColumn, ensureColumnCount and redistribution operations
\* before it, every column width held in the ColumnWidths state lies within
\* [minWidth, maxWidth].
C20_WidthsWithinBounds ==
    Stable =>
        \A i \in 1..Len(composed.columnWidths.columns) :
            /\ composed.columnWidths.columns[i] >= composed.options.minColumnWidth
            /\ composed.columnWidths.columns[i] <= composed.options.maxColumnWidth

\* C21: after a pointerMove of an active resize session, once the effects that
\* follow it have run, the width of the resized column is
\* clamp(startWidth + (pointerX - startX), minWidth, maxWidth) for the pointer
\* position of that move: it depends on the start values of the session and on
\* the current pointer position only, not on the moves before.
C21_LiveResizeWidth ==
    (Stable /\ resizeActive /\ lastEvent.type = "pointerMove") =>
        \E d \in ResizeMoves :
            /\ activeResize.currentWidth =
                   clampedWidth(activeResize, activeResize.startX + d, composed.options)
            /\ composed.columnWidths.columns[activeResize.columnIndex + 1] =
                   clampedWidth(activeResize, activeResize.startX + d, composed.options)

\* The notifications that sessions of up to MaxEvents events give rise to
Notices == { [index |-> i, width |-> w] : i \in {0, 1}, w \in {60, 150, 152, 153, 400} }

\* C22: every resize applied by a pointerMove or pointerUp of a resize session
\* that changes the width of the column schedules, in that very event, a
\* notification with the index of the column and its new clamped width, and
\* every scheduled notification is delivered to onColumnWidthChange.
C22_ResizeNotifies ==
    /\ [][(/\ resizeActive
           /\ eventCount' # eventCount
           /\ composed'.columnWidths.columns # composed.columnWidths.columns)
          => widthTimers' =
                Append(widthTimers,
                       [index |-> activeResize.columnIndex,
                        width |-> composed'.columnWidths.columns[
                                      activeResize.columnIndex + 1]])]_vars
    /\ \A n \in Notices :
          (\E k \in 1..Len(widthTimers) : widthTimers[k] = n) ~> (widthNotified = n)

\* The notification of a live resize to the minimum width has been delivered
\* while the session is still active
C22_Witness ==
    /\ resizeActive
    /\ activeResize.currentWidth = 60
    /\ widthNotified = [index |-> activeResize.columnIndex, width |-> 60]


\* C23: immediately after setSelection(s) returns, getState().selection is s,
\* whether or not a selection transition is in progress.
C23_CommitIsImmediate ==
    lastCall.op = "setSelection" => getStateSelection = lastCall.arg

\* setSelection has just returned while a transition towards another
\* selection was running
C23_Witness ==
    /\ lastCall.op = "setSelection"
    /\ transition.active
    /\ frame
    /\ transition.toSelection # lastCall.arg
    /\ getStateSelection = lastCall.arg

\* C24: after a render in which the committed selection changed, with the
\* previous or the next selection null or with a duration of zero, no
\* selection transition is active and no animation frame is pending.
C24_NoTransitionWithoutBothSides ==
    (/\ lastCall.op = "render"
     /\ lastCall.arg # selState
     /\ (lastCall.arg = Null \/ selState = Null \/ duration = 0))
        => (transition = NoTransition /\ ~frame)

\* The selection has just been cleared under a non-zero duration
C24_Witness ==
    /\ lastCall.op = "render"
    /\ lastCall.arg # Null
    /\ selState = Null
    /\ duration # 0
    /\ transition = NoTransition

\* C25: the progress of a started transition never decreases and stays in
\* [0,1], a transition is dropped when its progress reaches 1, and while
\* animation frames keep firing no started transition stays active forever.
C25_TransitionEnds ==
    /\ [][(transition.active /\ transition'.active
           /\ transition'.serial = transition.serial)
             => progressNum(transition') * transition.span
                  >= progressNum(transition) * transition'.span]_vars
    /\ [](transition.active =>
             (0 <= progressNum(transition) /\ progressNum(transition) < transition.span))
    /\ \A k \in 1..MaxSelCalls :
          (transition.active /\ transition.serial = k)
              ~> ~(transition.active /\ transition.serial = k)


\* C26: a pointer-move dispatched while no scrollbar, resize or reorder
\* session is open changes the hover highlight only: the committed selection,
\* the selection transition and its pending frame, and the rest of the grid
\* state stay as they were.
C26_HoverOnly ==
    [][(/\ eventCount' # eventCount
        /\ lastEvent'.type = "pointerMove"
        /\ scrollbarDrag = NoScrollbarDrag
        /\ ~resizeActive
        /\ columnDrag.status = "none")
          => (/\ selection' = selection
              /\ transition' = transition
              /\ frame' = frame
              /\ UNCHANGED <<selState, lastSelection, duration>>
              /\ UNCHANGED <<columns, scrollTop, scrollLeft, scrollbarDrag, resizeActive,
                             activeResize, columnDrag, currentOrder, committedOrder,
                             globalPointerUp>>)]_vars

\* An unconsumed pointer-move has put the hover highlight on another place
\* than the committed selection while a selection transition was running
C26_Witness ==
    /\ lastEvent.type = "pointerMove"
    /\ ~lastEvent.handled
    /\ scrollbarDrag = NoScrollbarDrag /\ ~resizeActive /\ columnDrag.status = "none"
    /\ selection # Null
    /\ hoverHighlight # Null
    /\ hoverHighlight # selection
    /\ transition.active
    /\ transition.toSelection = selection

\* C27: an event for which controllerOverrides.onEvent returned true changes
\* neither the scroll position nor the selection, and starts, updates or
\* commits no scrollbar, resize or reorder session.
C27_OverrideStopsDefault ==
    [][(eventCount' # eventCount /\ lastEvent'.override)
          => UNCHANGED <<selection, scrollTop, scrollLeft, scrollbarDrag, resizeActive,
                         activeResize, columns, columnDrag, currentOrder,
                         committedOrder>>]_vars


\* The part of the rectangle r inside the viewport [0, canvasWidth] x
\* [0, canvasHeight] of d, NullRect when that part has no area
ClipToViewport(r, d) ==
    LET left == Max(0, r.x)
        top == Max(0, r.y)
        right == Min(r.x + r.width, d.canvasWidth)
        bottom == Min(r.y + r.height, d.canvasHeight)
    IN  IF right - left <= 0 \/ bottom - top <= 0 THEN NullRect
        ELSE AnchorRect(left, top, right - left, bottom - top)

\* C28: the clamped selection rectangle is the unclamped selection rectangle
\* cut to the viewport, and null exactly when nothing of it with an area lies
\* in the viewport.
C28_ClampedIsClippedUnclamped ==
    fnOutput # NoCall /\ fnOutput.fn = "getSelectionRect"
        => fnOutput.result =
              ClipToViewport(getSelectionRectUnclamped(fnInput.selection, fnInput.d),
                             fnInput.d)

\* A selection that sticks out of the viewport on the left and on the right,
\* or at the top and at the bottom, and is returned cut
C28_Witness ==
    /\ fnOutput # NoCall /\ fnOutput.fn = "getSelectionRect"
    /\ ~fnOutput.result.null
    /\ LET u == getSelectionRectUnclamped(fnInput.selection, fnInput.d)
       IN  \/ u.x < 0 /\ u.x + u.width > fnInput.d.canvasWidth
           \/ u.y < 0 /\ u.y + u.height > fnInput.d.canvasHeight

\* C29: for a row or cell selection whose nominal top is above the bottom
\* edge of the header, the painted rectangle starts at or below that edge,
\* is as high as what lies between that edge and the selection's (clamped)
\* bottom, and is null when nothing lies there. Lengths in half pixels.
C29_ClippedAtHeader ==
    (/\ fnOutput # NoCall /\ fnOutput.fn = "computeSelectionRect"
     /\ fnInput.selection.type \in {"row", "cell"}
     /\ selectionEdges(fnInput.selection, fnInput.d).startY < fnInput.d.headerHeight)
        => LET e == selectionEdges(fnInput.selection, fnInput.d)
               remains == 2 * Min(e.endY, fnInput.d.canvasHeight)
                            - 2 * fnInput.d.headerHeight
               r == fnOutput.result
           IN  /\ remains <= 0 => r.null
               /\ ~r.null => (r.y >= 2 * fnInput.d.headerHeight /\ r.height = remains)

\* A row whose upper half is under the header is painted with its lower half
C29_Witness ==
    /\ fnOutput # NoCall /\ fnOutput.fn = "computeSelectionRect"
    /\ fnInput.selection = RowRange(0, 0)
    /\ fnInput.d.scrollTop = 16
    /\ fnInput.strokeW = 1
    /\ ~fnOutput.result.null
    /\ fnOutput.result.y = 2 * HEADER_HEIGHT + 1
    /\ fnOutput.result.height = ROW_HEIGHT

\* C30: a rectangle returned by getCellRect, getRowRect, getColumnRect or
\* getHeaderCellRect has a width and a height of at least 0.
C30_RectsNotNegative ==
    (/\ fnOutput # NoCall
     /\ fnOutput.fn \in {"getCellRect", "getRowRect", "getColumnRect",
                         "getHeaderCellRect"}
     /\ ~fnOutput.result.null)
        => (fnOutput.result.width >= 0 /\ fnOutput.result.height >= 0)


\* C31: calculateColumnWidths returns for every input with minWidth <=
\* maxWidth, also when fitToCanvas is true and canvasWidth - gutterWidth lies
\* outside what the columns can sum to within their bounds.
C31_ColumnWidthsTerminates ==
    (/\ fnInput.kind = "widths"
     /\ fnInput.minWidth <= fnInput.maxWidth
     /\ fnOutput # NoCall)
        => fnOutput.returns


\* C32: when a fetch started before a clearCache completes while a fetch for
\* the same page started after it is in flight, the page keeps its loading
\* mark; and no page has two fetches in flight that were both started since
\* the last clearCache.
C32_StaleFetchKeepsMark ==
    /\ [][\A f \in fetches :
            (/\ f.stale
             /\ f \notin fetches'
             /\ \E g \in fetches \cap fetches' :
                   g.pageIndex = f.pageIndex /\ ~g.stale)
               => f.pageIndex \in loadingPages']_vars
    /\ [](\A f, g \in fetches :
            (f.pageIndex = g.pageIndex /\ ~f.stale /\ ~g.stale) => f = g)


\* hasPage(p) in the Map pgs
available(pgs, p) ==
    LET i == PagePos(pgs, p)
    IN  i # 0 /\ ~pgs[i].isLoading /\ ~pgs[i].error

\* C33: with cacheSize at least the number of pages of the range of the last
\* ensureDataLoaded call plus two, the completion of a load leaves every page
\* of that range that was available still available.
C33_LoadKeepsVisiblePages ==
    [][(/\ cacheSize >= (lastRange.endPage - lastRange.startPage + 1) + 2
        /\ \E f \in fetches : \A g \in fetches' : g.fid # f.fid)
          => \A p \in lastRange.startPage..lastRange.endPage :
                available(pages, p) => available(pages', p)]_vars


\* this.pages.get(p)?.error is set, in the Map pgs
errored(pgs, p) ==
    LET i == PagePos(pgs, p)
    IN  i # 0 /\ pgs[i].error

\* C34: while every fetchRows call settles in the end, every page marked
\* loading loses the mark in the end, and does so as an available or an
\* errored page when the fetch that ends was started since the last clearCache;
\* and every suspended ensureDataLoaded call resumes in the end.
C34_LoadingEnds ==
    /\ \A p \in PageIndices : (p \in loadingPages) ~> (p \notin loadingPages)
    /\ (calls # {}) ~> (calls = {})
    /\ [][\A f \in fetches :
            (~f.stale /\ \A g \in fetches' : g.fid # f.fid)
               => (\/ available(pages', f.pageIndex)
                   \/ errored(pages', f.pageIndex))]_vars

\* C35: every fetchRows(offset, limit) call in flight was issued with offset
\* a non-negative multiple of pageSize (the offset of its page), with
\* 1 <= limit <= pageSize and with offset + limit <= rowCount; no fetch is
\* in flight for a page that lies entirely beyond rowCount.
C35_FetchWithinRows ==
    \A f \in fetches :
        /\ f.offset >= 0
        /\ f.offset % PageSize = 0
        /\ f.offset = f.pageIndex * PageSize
        /\ 1 <= f.limit
        /\ f.limit <= PageSize
        /\ f.offset + f.limit <= RowCount
        /\ f.pageIndex * PageSize < RowCount

\* The fetch of the last page of the rows is in flight for a call that needs
\* it, with the rows that are left as its limit
C35_Witness ==
    \E f \in fetches : /\ ~f.stale
                       /\ f.kind = "required"
                       /\ (f.pageIndex + 1) * PageSize >= RowCount
                       /\ f.limit = RowCount - f.offset

\* Two orders hold the same columns, each as often as the other
IsPermutation(a, b) ==
    /\ Len(a) = Len(b)
    /\ \A v \in { a[i] : i \in 1..Len(a) } \cup { b[i] : i \in 1..Len(b) } :
          Cardinality({ i \in 1..Len(a) : a[i] = v })
             = Cardinality({ i \in 1..Len(b) : b[i] = v })

\* C36: while a reorder drag is active its snapshot is the column order from
\* before the drag and the preview order is a permutation of it (same
\* length, no column lost or duplicated), and the order handed to
\* onColumnOrderChange at the commit is a permutation of the order from
\* before the drag.
C36_PreviewIsPermutation ==
    /\ [](columnDrag.status = "dragging"
            => /\ columnDrag.initialOrder = currentOrder
               /\ IsPermutation(columnDrag.previewOrder, currentOrder))
    /\ [][(eventCount' # eventCount /\ emitted' # <<>>)
             => /\ columnDrag.status = "dragging"
                /\ IsPermutation(emitted'[1], currentOrder)
                /\ Len(emitted'[1]) = ColumnCount]_vars

\* A drag from an order other than the identity has moved its column
C36_Witness ==
    /\ columnDrag.status = "dragging"
    /\ columnDrag.initialOrder # IdentityOrder(ColumnCount)
    /\ columnDrag.previewOrder # columnDrag.initialOrder
    /\ lastEvent.type = "pointerMove"

\* The column selection spanned by the positions that the data columns in
\* dataSet have in order
FollowedSelection(dataSet, order) ==
    LET at == { i \in 0..(Len(order) - 1) : order[i + 1] \in dataSet }
    IN  ColumnSelection(CHOOSE a \in at : \A b \in at : a <= b,
                        CHOOSE a \in at : \A b \in at : a >= b)

\* The data columns a session has snapshotted
Snapshotted(drag) ==
    { drag.selectedDataIndices[i] : i \in 1..Len(drag.selectedDataIndices) }

\* C37: a column selection active when a reorder drag starts is snapshotted
\* as the data columns it covers in the order of that moment; after every
\* pointer-move of the drag, and after its commit, the selection runs from
\* the minimum to the maximum position that these data columns have in the
\* preview order (in the committed order).
C37_SelectionFollowsColumns ==
    /\ [][(columnDrag.status = "pending" /\ columnDrag'.status = "dragging")
             => Snapshotted(columnDrag')
                  = (IF selection # Null /\ selection.type = "column"
                     THEN { currentOrder[i + 1] :
                              i \in Min(selection.startCol, selection.endCol)
                                      ..Max(selection.startCol, selection.endCol) }
                     ELSE {})]_vars
    /\ [][(/\ eventCount' # eventCount
           /\ columnDrag'.status = "dragging"
           /\ Snapshotted(columnDrag') # {})
             => selection' = FollowedSelection(Snapshotted(columnDrag'),
                                               columnDrag'.previewOrder)]_vars
    /\ [][(/\ eventCount' # eventCount
           /\ emitted' # <<>>
           /\ Snapshotted(columnDrag) # {})
             => selection' = FollowedSelection(Snapshotted(columnDrag),
                                               emitted'[1])]_vars

\* A drag that started under a selection of two columns has moved one of
\* them past the third: the selection spans all three
C37_Witness ==
    /\ columnDrag.status = "dragging"
    /\ Len(columnDrag.selectedDataIndices) = 2
    /\ lastEvent.type = "pointerMove"
    /\ selection = ColumnSelection(0, 2)

\* C38: a pointer-move at the position of the pointer-down that grabbed a
\* scrollbar thumb leaves scrollTop and scrollLeft as they were, whichever
\* scrollbars are visible.
C38_ThumbGrabKeepsScroll ==
    (/\ fnInput.kind = "thumb"
     /\ fnOutput # NoCall
     /\ fnOutput.kind = "move"
     /\ fnOutput.drag.type # "none"
     /\ fnOutput.samePosition)
        => /\ fnOutput.scroll.scrollTop = FInt(fnInput.scrollTop)
           /\ fnOutput.scroll.scrollLeft = FInt(fnInput.scrollLeft)

\* The cell (row, col), clamped to the bounds of the grid g, lies within the
\* viewport body of g: below the header and right of the gutter
CellInside(g, row, col) ==
    LET clampedRow == Max(0, Min(g.options.totalRows - 1, row))
        clampedCol == Max(0, Min(g.options.totalColumns - 1, col))
        top == HEADER_HEIGHT + clampedRow * ROW_HEIGHT - g.scrollTop
        left == g.columnWidths.gutter
                + SeqSum(SubSeq(g.columnWidths.columns, 1, clampedCol)) - g.scrollLeft
        width == g.columnWidths.columns[clampedCol + 1]
    IN  /\ top >= HEADER_HEIGHT
        /\ top + ROW_HEIGHT <= g.canvasRect.height
        /\ left >= g.columnWidths.gutter
        /\ left + width <= g.canvasRect.width

\* The cell (row, col), clamped, is no larger than the viewport body of g
CellFits(g, row, col) ==
    LET clampedCol == Max(0, Min(g.options.totalColumns - 1, col))
    IN  /\ clampedCol < Len(g.columnWidths.columns)
        /\ ROW_HEIGHT <= g.canvasRect.height - HEADER_HEIGHT
        /\ g.columnWidths.columns[clampedCol + 1]
              <= g.canvasRect.width - g.columnWidths.gutter

\* C39: when scrollToCell(row, col, 'nearest') returns, the bounds-clamped
\* target cell lies fully inside the viewport body whenever it is no larger
\* than the body, also for a call that comes before the animation frame
\* that follows an earlier call.
C39_NearestBringsCellInside ==
    [][(/\ fnOutput' # fnOutput
        /\ fnOutput'.kind = "scrollToCell"
        /\ CellFits(composed, fnOutput'.row, fnOutput'.col))
          => CellInside(composed', fnOutput'.row, fnOutput'.col)]_vars

\* C40: after every key of a run of consecutive shift-modified navigation
\* keys (arrows, page keys, Home and End) the anchor cell is the cell that
\* was focused when the run began, and the committed selection is the cell
\* range from the anchor to the new focused cell.
C40_ShiftRunKeepsAnchor ==
    [][(fnOutput' # fnOutput /\ fnOutput'.kind = "keys" /\ fnOutput'.run > 0)
         => /\ fnOutput'.selectionAnchor = fnOutput'.runStart
            /\ fnOutput'.runStart # NoCell
            /\ fnOutput.run > 0 => fnOutput'.selectionAnchor = fnOutput.selectionAnchor
            /\ selection' = CellRange(fnOutput'.runStart.row, fnOutput'.runStart.col,
                                      fnOutput'.focusedCell.row,
                                      fnOutput'.focusedCell.col)]_vars

\* The second key of a run has left the focus in another row and another
\* column than the anchor, which is not the first cell
C40_Witness ==
    /\ fnOutput.kind = "keys"
    /\ fnOutput.run >= 2
    /\ fnOutput.selectionAnchor # Cell(0, 0)
    /\ fnOutput.focusedCell.row # fnOutput.selectionAnchor.row
    /\ fnOutput.focusedCell.col # fnOutput.selectionAnchor.col
    /\ selection = expandSelectionToRange(fnOutput.selectionAnchor, fnOutput.focusedCell)
================================================================================
